---- MODULE Spec2Model ----
(***************************************************************************)
(* Stat & modifier engine (src/modules/Stat.js) and the session controller *)
(* (src/modules/StateManager.js) as a state machine.                       *)
(*                                                                         *)
(* Numbers are integers.  An optional or non-numeric JavaScript argument   *)
(* is None (<<>>); a numeric one is Some(n) (<<n>>).                       *)
(* Utils.js, StatModifier.js and Parser.js are imported by the sources but *)
(* are not part of them; their operators are written from the design       *)
(* document and from the way the sources call them.                        *)
(***************************************************************************)
EXTENDS Integers, Sequences, FiniteSets, TLC

VARIABLES
    active,     \* StateManager.currentState !== null
    enabled,    \* StateManager.settings.enabled
    turnCount,  \* currentState.turnCount
    stats,      \* currentState.statManager.stats, in insertion order
    ret,        \* the last operation: its name, its argument, what it returned
    tokenMode,  \* StateManager.settings.tokenMode
    listeners,  \* the registered listeners: [change, stat, state], each in
                \* registration order (StatManager._changeListeners,
                \* StateManager._statChangeListeners, _stateChangeListeners)
    notified,   \* the listener calls the last operation made, in order
    changeHistory   \* Stat._changeHistory of the stats under observation,
                    \* by stat id

vars == <<active, enabled, turnCount, stats, ret,
          tokenMode, listeners, notified, changeHistory>>

\* what an operation of a Stat object leaves alone
session == <<active, enabled, turnCount, tokenMode, listeners>>

-----------------------------------------------------------------------------
(* Bounds of the model *)

MaxNum == 2        \* numeric inputs range over 0..MaxNum
MaxDur == 2        \* finite modifier durations range over 1..MaxDur
MaxTurn == 3       \* tick is not taken beyond this turn
MaxMsgLen == 2     \* tokens in one message
MaxListeners == 2  \* listeners registered with one registry

(* Program constants *)

DefaultMinValue == 0      \* toNumber(config.minValue, 0)
DefaultMaxValue == 100    \* toNumber(config.maxValue, 100)
MaxHistoryLength == 10    \* this._maxHistoryLength = 10

-----------------------------------------------------------------------------
(* Values *)

None == <<>>
Some(n) == <<n>>
Opt(S) == {None} \cup {Some(n) : n \in S}

Nums == 0..MaxNum
Deltas == (0 - MaxNum)..MaxNum

RECURSIVE SumSeq(_)
SumSeq(s) == IF s = <<>> THEN 0 ELSE s[1] + SumSeq(Tail(s))

RECURSIVE ProdSeq(_)
ProdSeq(s) == IF s = <<>> THEN 1 ELSE s[1] * ProdSeq(Tail(s))

Range(s) == {s[i] : i \in 1..Len(s)}

-----------------------------------------------------------------------------
(* Utils.js *)

\* toNumber(value, fallback): the value when it is a number, else the fallback
toNumber(v, fallback) == IF v = None THEN fallback ELSE v[1]

Max2(a, b) == IF a >= b THEN a ELSE b
Min2(a, b) == IF a <= b THEN a ELSE b

\* clamp(value, min, max)
clamp(v, lo, hi) == Min2(Max2(v, lo), hi)

\* SafeMath.add / SafeMath.subtract: exact on integers
SafeMath_add(a, b) == a + b
SafeMath_subtract(a, b) == a - b

\* sanitizeId: lowercases an identifier (over the identifiers of the model)
sanitizeId(id) == IF id = "HP" THEN "hp" ELSE id

-----------------------------------------------------------------------------
(* StatModifier.js: Modifier and ModifierCollection                        *)
(* A modifier is [id, type, value, duration, dur0, age]; duration is None  *)
(* for a permanent modifier.  dur0 (the duration it was added with) and    *)
(* age (the ticks it has lived through) are history fields.                *)

ModifierTypes == {"add", "multiply", "percent", "override"}
ModValues == {1, 3}
ModIds == {"m1", "m2"}

StatModifier(id, type, value, duration) ==
    [id |-> id, type |-> type, value |-> value, duration |-> duration,
     dur0 |-> duration, age |-> 0]

\* ModifierCollection.remove(id): the collection without that identifier
ModifierCollection_remove(mods, id) == SelectSeq(mods, LAMBDA m : m.id # id)

\* ModifierCollection.add(modifier): a duplicate identifier replaces the prior one
ModifierCollection_add(mods, m) == Append(ModifierCollection_remove(mods, m.id), m)

ModifierCollection_has(mods, id) == \E i \in 1..Len(mods) : mods[i].id = id

\* ModifierCollection.tick(): what is left, and the identifiers that expired
TickModifier(m) ==
    IF m.duration = None THEN m
    ELSE [m EXCEPT !.duration = Some(m.duration[1] - 1), !.age = m.age + 1]

Expiring(m) == m.duration # None /\ m.duration[1] - 1 <= 0

RECURSIVE MapTick(_)
MapTick(mods) ==
    IF mods = <<>> THEN <<>>
    ELSE <<TickModifier(mods[1])>> \o MapTick(Tail(mods))

RECURSIVE IdsOf(_)
IdsOf(mods) == IF mods = <<>> THEN <<>> ELSE <<mods[1].id>> \o IdsOf(Tail(mods))

RECURSIVE ValuesOf(_)
ValuesOf(mods) ==
    IF mods = <<>> THEN <<>> ELSE <<mods[1].value>> \o ValuesOf(Tail(mods))

ModifierCollection_tick(mods) ==
    [modifiers |-> MapTick(SelectSeq(mods, LAMBDA m : ~Expiring(m))),
     expired |-> IdsOf(SelectSeq(mods, Expiring))]

OfType(mods, t) == SelectSeq(mods, LAMBDA m : m.type = t)

\* ModifierCollection.applyAll(base): called by Stat.finalValue with the
\* stat's current value as its only argument
ModifierCollection_applyAll(mods, base) ==
    LET overrides == OfType(mods, "override")
    IN  IF overrides # <<>>
        THEN overrides[Len(overrides)].value
        ELSE (base + SumSeq(ValuesOf(OfType(mods, "add"))))
                 * ProdSeq(ValuesOf(OfType(mods, "multiply")))
             + SumSeq(ValuesOf(OfType(mods, "percent"))) * base

-----------------------------------------------------------------------------
(* Stat.js: class Stat                                                     *)
(* A stat is [id, baseValue, currentValue, minValue, maxValue, modifiers,   *)
(* displayMode, showInUI].  A config is [id, baseValue, currentValue,      *)
(* minValue, maxValue] with optional numeric fields, and may carry         *)
(* displayMode and showInUI; a field a config does not carry is undefined. *)

StatIds == {"hp", "mp"}

\* Object.values(StatDisplayMode)
StatDisplayMode == {"value", "fraction", "percent", "bar", "hidden"}

\* validateDisplayMode(mode)
validateDisplayMode(mode) == IF mode \in StatDisplayMode THEN mode ELSE "value"

\* the fields of r among names
Only(r, names) == [n \in names \cap DOMAIN r |-> r[n]]

Config(id, base, cur, mn, mx) ==
    [id |-> id, baseValue |-> base, currentValue |-> cur,
     minValue |-> mn, maxValue |-> mx]

\* constructor(config)
Stat_constructor(config) ==
    LET minIn == toNumber(config.minValue, DefaultMinValue)
        maxIn == toNumber(config.maxValue, DefaultMaxValue)
        minVal == IF minIn > maxIn THEN maxIn ELSE minIn
        maxVal == IF minIn > maxIn THEN minIn ELSE maxIn
        base == clamp(toNumber(config.baseValue, maxVal), minVal, maxVal)
    IN  [id |-> sanitizeId(config.id),
         minValue |-> minVal,
         maxValue |-> maxVal,
         baseValue |-> base,
         currentValue |-> IF config.currentValue # None
                          THEN clamp(toNumber(config.currentValue, base), minVal, maxVal)
                          ELSE base,
         displayMode |-> validateDisplayMode(IF "displayMode" \in DOMAIN config
                                             THEN config.displayMode ELSE ""),
         showInUI |-> ~("showInUI" \in DOMAIN config /\ config.showInUI = FALSE),
         modifiers |-> <<>>]

\* _recordChange that trims the record it has just pushed
Stat_recordChange_keepOldest(history, oldValue, newValue) ==
    LET h == Append(history, [oldValue |-> oldValue, newValue |-> newValue,
                              change |-> SafeMath_subtract(newValue, oldValue)])
    IN  IF Len(h) > MaxHistoryLength THEN SubSeq(h, 1, MaxHistoryLength) ELSE h

\* _recordChange(oldValue, newValue), on the history it is appended to; the
\* timestamp of a record is left out
Stat_recordChange(history, oldValue, newValue) ==
    LET h == Append(history, [oldValue |-> oldValue, newValue |-> newValue,
                              change |-> SafeMath_subtract(newValue, oldValue)])
    IN  IF Len(h) > MaxHistoryLength
        THEN SubSeq(h, Len(h) - MaxHistoryLength + 1, Len(h))
        ELSE h

\* set currentValue(value)
Stat_setCurrentValue(s, value) ==
    LET oldValue == s.currentValue
        newValue == clamp(toNumber(value, s.currentValue), s.minValue, s.maxValue)
    IN  IF oldValue # newValue THEN [s EXCEPT !.currentValue = newValue] ELSE s

\* finalValue that forgets the final clamp
Stat_finalValue_noClamp(s) ==
    ModifierCollection_applyAll(s.modifiers, s.currentValue)

\* finalValue that starts from the base value instead of the current one
Stat_finalValue_fromBase(s) ==
    clamp(ModifierCollection_applyAll(s.modifiers, s.baseValue),
          s.minValue, s.maxValue)

\* finalValue that applies the modifiers one after the other, as they were
\* added
RECURSIVE ApplyInOrder(_, _, _)
ApplyInOrder(mods, base, value) ==
    IF mods = <<>> THEN value
    ELSE ApplyInOrder(Tail(mods), base,
             CASE mods[1].type = "add" -> value + mods[1].value
               [] mods[1].type = "multiply" -> value * mods[1].value
               [] mods[1].type = "percent" -> value + mods[1].value * base
               [] OTHER -> mods[1].value)

Stat_finalValue_inOrder(s) ==
    clamp(ApplyInOrder(s.modifiers, s.currentValue, s.currentValue),
          s.minValue, s.maxValue)

\* get finalValue()
Stat_finalValue(s) ==
    clamp(ModifierCollection_applyAll(s.modifiers, s.currentValue),
          s.minValue, s.maxValue)

\* SafeMath.percentage(part, total), rounded to the nearest integer as
\* Math.round rounds it; part >= 0 and total > 0 where it is called
SafeMath_percentage(part, total) == (200 * part + total) \div (2 * total)

\* get percentage()
Stat_percentage(s) ==
    IF s.maxValue = s.minValue THEN 100
    ELSE SafeMath_percentage(s.currentValue - s.minValue, s.maxValue - s.minValue)

\* get lastChange(): _recordChange writes _lastChange and the history
\* together, and only the constructor clears them
Stat_lastChange(history) ==
    IF history = <<>> THEN 0 ELSE history[Len(history)].change

\* getDisplayString(): the numbers the string is made of; the values of the
\* model are integers, which Math.round leaves as they are
Stat_getDisplayString(s) ==
    CASE s.displayMode = "value" -> <<Stat_finalValue(s)>>
      [] s.displayMode = "fraction" -> <<Stat_finalValue(s), "/", s.maxValue>>
      [] s.displayMode = "percent" -> <<Stat_percentage(s), "%">>
      [] s.displayMode = "hidden" -> <<>>
      [] OTHER -> <<Stat_finalValue(s), "/", s.maxValue>>

\* modify(delta) that never reports a clamp
Stat_modify_neverClamped(s, delta) ==
    LET oldValue == s.currentValue
        targetValue == SafeMath_add(oldValue, toNumber(delta, 0))
        t == Stat_setCurrentValue(s, Some(targetValue))
    IN  [stat |-> t,
         result |-> [oldValue |-> oldValue,
                     newValue |-> t.currentValue,
                     actualChange |-> SafeMath_subtract(t.currentValue, oldValue),
                     requestedChange |-> toNumber(delta, 0),
                     wasClamped |-> FALSE]]

\* modify(delta) that reports the applied change as the requested one
Stat_modify_requestedAsActual(s, delta) ==
    LET oldValue == s.currentValue
        targetValue == SafeMath_add(oldValue, toNumber(delta, 0))
        t == Stat_setCurrentValue(s, Some(targetValue))
    IN  [stat |-> t,
         result |-> [oldValue |-> oldValue,
                     newValue |-> t.currentValue,
                     actualChange |-> SafeMath_subtract(t.currentValue, oldValue),
                     requestedChange |-> SafeMath_subtract(t.currentValue, oldValue),
                     wasClamped |-> t.currentValue # targetValue]]

\* modify(delta)
Stat_modify(s, delta) ==
    LET oldValue == s.currentValue
        targetValue == SafeMath_add(oldValue, toNumber(delta, 0))
        t == Stat_setCurrentValue(s, Some(targetValue))
    IN  [stat |-> t,
         result |-> [oldValue |-> oldValue,
                     newValue |-> t.currentValue,
                     actualChange |-> SafeMath_subtract(t.currentValue, oldValue),
                     requestedChange |-> toNumber(delta, 0),
                     wasClamped |-> t.currentValue # targetValue]]

\* set(value)
Stat_set(s, value) ==
    LET t == Stat_setCurrentValue(s, value)
    IN  [stat |-> t,
         result |-> [oldValue |-> s.currentValue, newValue |-> t.currentValue]]

\* reset() / fill() / empty()
Stat_reset(s) == Stat_set(s, Some(s.baseValue))
Stat_fill(s) == Stat_set(s, Some(s.maxValue))
Stat_empty(s) == Stat_set(s, Some(s.minValue))

\* addModifier that writes the modified value into the stored one
Stat_addModifier_baked(s, m) ==
    LET t == [s EXCEPT !.modifiers = ModifierCollection_add(s.modifiers, m)]
    IN  [t EXCEPT !.currentValue = Stat_finalValue(t)]

\* addModifier / removeModifier / clearModifiers
Stat_addModifier(s, m) ==
    [s EXCEPT !.modifiers = ModifierCollection_add(s.modifiers, m)]

Stat_removeModifier(s, id) ==
    [stat |-> [s EXCEPT !.modifiers = ModifierCollection_remove(s.modifiers, id)],
     result |-> ModifierCollection_has(s.modifiers, id)]

Stat_clearModifiers(s) == [s EXCEPT !.modifiers = <<>>]

\* setBounds that leaves inverted bounds as they were given
Stat_setBounds_noSwap(s, mn, mx) ==
    LET minIn == IF mn # None THEN toNumber(mn, s.minValue) ELSE s.minValue
        maxIn == IF mx # None THEN toNumber(mx, s.maxValue) ELSE s.maxValue
        t == [s EXCEPT !.minValue = minIn, !.maxValue = maxIn]
    IN  Stat_setCurrentValue(t, Some(t.currentValue))

\* setBounds that forgets to re-clamp the current value
Stat_setBounds_noReclamp(s, mn, mx) ==
    LET minIn == IF mn # None THEN toNumber(mn, s.minValue) ELSE s.minValue
        maxIn == IF mx # None THEN toNumber(mx, s.maxValue) ELSE s.maxValue
    IN  [s EXCEPT !.minValue = IF minIn > maxIn THEN maxIn ELSE minIn,
                  !.maxValue = IF minIn > maxIn THEN minIn ELSE maxIn]

\* setBounds(min, max)
Stat_setBounds(s, mn, mx) ==
    LET minIn == IF mn # None THEN toNumber(mn, s.minValue) ELSE s.minValue
        maxIn == IF mx # None THEN toNumber(mx, s.maxValue) ELSE s.maxValue
        newMin == IF minIn > maxIn THEN maxIn ELSE minIn
        newMax == IF minIn > maxIn THEN minIn ELSE maxIn
        t == [s EXCEPT !.minValue = newMin, !.maxValue = newMax]
    IN  Stat_setCurrentValue(t, Some(t.currentValue))

\* tick()
Stat_tick(s) ==
    LET r == ModifierCollection_tick(s.modifiers)
    IN  [stat |-> [s EXCEPT !.modifiers = r.modifiers], expired |-> r.expired]

\* ModifierCollection.toJSON / fromJSON: the serialized fields of each modifier
RECURSIVE ModifierCollection_toJSON(_)
ModifierCollection_toJSON(mods) ==
    IF mods = <<>> THEN <<>>
    ELSE <<[id |-> mods[1].id, type |-> mods[1].type, value |-> mods[1].value,
            duration |-> mods[1].duration]>>
         \o ModifierCollection_toJSON(Tail(mods))

RECURSIVE ModifierCollection_fromJSON(_)
ModifierCollection_fromJSON(data) ==
    IF data = <<>> THEN <<>>
    ELSE ModifierCollection_add(
             ModifierCollection_fromJSON(SubSeq(data, 1, Len(data) - 1)),
             StatModifier(data[Len(data)].id, data[Len(data)].type,
                          data[Len(data)].value, data[Len(data)].duration))

\* toJSON()
Stat_toJSON(s) ==
    [id |-> s.id,
     baseValue |-> Some(s.baseValue),
     currentValue |-> Some(s.currentValue),
     minValue |-> Some(s.minValue),
     maxValue |-> Some(s.maxValue),
     displayMode |-> s.displayMode,
     showInUI |-> s.showInUI,
     modifiers |-> ModifierCollection_toJSON(s.modifiers)]

\* static fromJSON(data)
Stat_fromJSON(data) ==
    [Stat_constructor(Config(data.id, data.baseValue, data.currentValue,
                             data.minValue, data.maxValue)
                      @@ Only(data, {"displayMode", "showInUI"}))
        EXCEPT !.modifiers = IF "modifiers" \in DOMAIN data
                             THEN ModifierCollection_fromJSON(data.modifiers)
                             ELSE <<>>]

\* clone()
Stat_clone(s) == Stat_fromJSON(Stat_toJSON(s))

-----------------------------------------------------------------------------
(* Inputs *)

ConfigInputs(ids) ==
    {Config(id, base, cur, Some(mn), Some(mx)) :
        id \in ids, base \in Opt(Nums), cur \in Opt(Nums), mn \in Nums, mx \in Nums}

\* permanent modifiers of every type and magnitude, and timed additive ones
ModifierInputs ==
    {StatModifier(id, type, value, None) :
        id \in ModIds, type \in ModifierTypes, value \in ModValues}
    \cup {StatModifier(id, "add", 1, Some(d)) : id \in ModIds, d \in 1..MaxDur}

\* serialized stats handed to Stat.fromJSON
RestoreInputs(ids) ==
    {Config(id, base, cur, Some(0), Some(MaxNum)) :
        id \in ids, base \in Opt({0, MaxNum}), cur \in Opt({0, MaxNum})}
    \cup {Config(id, None, None, Some(MaxNum), Some(0)) : id \in ids}

Ret(op, arg, val) == [op |-> op, arg |-> arg, val |-> val]

\* DEFAULT_SETTINGS.tokenMode
DefaultTokenMode == "minimal"

\* TokenMode
TokenMode == [ZERO |-> "zero", MINIMAL |-> "minimal", FULL |-> "full"]

\* no listener registered anywhere
NoListeners == [change |-> <<>>, stat |-> <<>>, state |-> <<>>]

-----------------------------------------------------------------------------
(* Operations on one stat of the registry (the Stat object at position i) *)

Touch(i, s) == stats' = [stats EXCEPT ![i] = s]

\* the history of the stat id after a write of the setter that found oldValue
\* and left newValue: a record is pushed when the two differ
Recorded(h, id, oldValue, newValue) ==
    IF id \in DOMAIN h /\ oldValue # newValue
    THEN [h EXCEPT ![id] = Stat_recordChange(h[id], oldValue, newValue)]
    ELSE h

\* the histories once the stats named ids are new objects, or gone
Forgotten(h, ids) == [id \in DOMAIN h |-> IF id \in ids THEN <<>> ELSE h[id]]

Modify(i, delta) ==
    LET r == Stat_modify(stats[i], delta)
    IN  /\ Touch(i, r.stat)
        /\ ret' = Ret("modify", delta, None)
        /\ changeHistory' = Recorded(changeHistory, stats[i].id,
                                     stats[i].currentValue, r.stat.currentValue)
        /\ notified' = <<>>
        /\ UNCHANGED session

Set(i, value) ==
    LET r == Stat_set(stats[i], value)
    IN  /\ Touch(i, r.stat)
        /\ ret' = Ret("set", value, None)
        /\ changeHistory' = Recorded(changeHistory, stats[i].id,
                                     stats[i].currentValue, r.stat.currentValue)
        /\ notified' = <<>>
        /\ UNCHANGED session

ResetStat(i) ==
    LET r == Stat_reset(stats[i])
    IN  /\ Touch(i, r.stat)
        /\ ret' = Ret("resetStat", None, None)
        /\ changeHistory' = Recorded(changeHistory, stats[i].id,
                                     stats[i].currentValue, r.stat.currentValue)
        /\ notified' = <<>>
        /\ UNCHANGED session

Fill(i) ==
    LET r == Stat_fill(stats[i])
    IN  /\ Touch(i, r.stat)
        /\ ret' = Ret("fill", None, None)
        /\ changeHistory' = Recorded(changeHistory, stats[i].id,
                                     stats[i].currentValue, r.stat.currentValue)
        /\ notified' = <<>>
        /\ UNCHANGED session

Empty(i) ==
    LET r == Stat_empty(stats[i])
    IN  /\ Touch(i, r.stat)
        /\ ret' = Ret("empty", None, None)
        /\ changeHistory' = Recorded(changeHistory, stats[i].id,
                                     stats[i].currentValue, r.stat.currentValue)
        /\ notified' = <<>>
        /\ UNCHANGED session

SetBounds(i, mn, mx) ==
    LET t == Stat_setBounds(stats[i], mn, mx)
    IN  /\ Touch(i, t)
        /\ ret' = Ret("setBounds", None, None)
        /\ changeHistory' = Recorded(changeHistory, stats[i].id,
                                     stats[i].currentValue, t.currentValue)
        /\ notified' = <<>>
        /\ UNCHANGED session

AddModifier(i, m) ==
    /\ Touch(i, Stat_addModifier(stats[i], m))
    /\ ret' = Ret("addModifier", m, None)
    /\ notified' = <<>>
    /\ UNCHANGED <<session, changeHistory>>

RemoveModifier(i, id) ==
    LET r == Stat_removeModifier(stats[i], id)
    IN  /\ Touch(i, r.stat)
        /\ ret' = Ret("removeModifier", id, r.result)
        /\ notified' = <<>>
        /\ UNCHANGED <<session, changeHistory>>

ClearModifiers(i) ==
    /\ Touch(i, Stat_clearModifiers(stats[i]))
    /\ ret' = Ret("clearModifiers", None, None)
    /\ notified' = <<>>
    /\ UNCHANGED <<session, changeHistory>>

TickStat(i) ==
    LET r == Stat_tick(stats[i])
    IN  /\ Touch(i, r.stat)
        /\ ret' = Ret("tickStat", None, r.expired)
        /\ notified' = <<>>
        /\ UNCHANGED <<session, changeHistory>>

\* get finalValue()
GetFinalValue(i) ==
    /\ ret' = Ret("finalValue", None, Stat_finalValue(stats[i]))
    /\ notified' = <<>>
    /\ UNCHANGED <<session, stats, changeHistory>>

\* clone() and fromJSON(data) make a new Stat, which starts without history
Clone(i) ==
    LET t == Stat_clone(stats[i])
    IN  /\ Touch(i, t)
        /\ ret' = Ret("clone", None, None)
        /\ changeHistory' = Forgotten(changeHistory, {stats[i].id, t.id})
        /\ notified' = <<>>
        /\ UNCHANGED session

FromJSON(i, config) ==
    LET t == Stat_fromJSON([id |-> config.id,
                            baseValue |-> config.baseValue,
                            currentValue |-> config.currentValue,
                            minValue |-> config.minValue,
                            maxValue |-> config.maxValue,
                            modifiers |-> <<>>])
    IN  /\ Touch(i, t)
        /\ ret' = Ret("fromJSON", None, None)
        /\ changeHistory' = Forgotten(changeHistory, {stats[i].id, t.id})
        /\ notified' = <<>>
        /\ UNCHANGED session

-----------------------------------------------------------------------------
(* SpecStat: every sequence of operations on one Stat *)

InitStat ==
    /\ active = TRUE
    /\ enabled = TRUE
    /\ turnCount = 0
    /\ \E c \in ConfigInputs({"hp"}) : stats = <<Stat_constructor(c)>>
    /\ ret = Ret("new", None, None)
    /\ tokenMode = DefaultTokenMode
    /\ listeners = NoListeners
    /\ notified = <<>>
    /\ changeHistory = <<>>

NextStat ==
    \/ \E d \in Opt(Deltas) : Modify(1, d)
    \/ \E v \in Opt(Nums) : Set(1, v)
    \/ ResetStat(1)
    \/ Fill(1)
    \/ Empty(1)
    \/ \E mn \in Opt(Nums), mx \in Opt(Nums) : SetBounds(1, mn, mx)
    \/ \E m \in ModifierInputs : AddModifier(1, m)
    \/ \E id \in ModIds : RemoveModifier(1, id)
    \/ ClearModifiers(1)
    \/ TickStat(1)
    \/ Clone(1)
    \/ \E c \in RestoreInputs({"hp"}) : FromJSON(1, c)

SpecStat == InitStat /\ [][NextStat]_vars

-----------------------------------------------------------------------------
(* Properties of one Stat (checked under SpecStat) *)

\* the bound nearest to a target, the target itself when it lies within
NearestBound(target, s) ==
    IF target > s.maxValue THEN s.maxValue
    ELSE IF target < s.minValue THEN s.minValue
    ELSE target

StatInBounds(s) ==
    /\ s.minValue <= s.maxValue
    /\ s.minValue <= s.currentValue
    /\ s.currentValue <= s.maxValue

\* a set or modify step leaves the target, or the bound nearest to it
WriteClamped ==
    \A i \in 1..Len(stats) :
        /\ (ret'.op = "set" /\ ret'.arg # None)
              => stats'[i].currentValue = NearestBound(ret'.arg[1], stats[i])
        /\ (ret'.op = "modify" /\ ret'.arg # None)
              => stats'[i].currentValue
                     = NearestBound(stats[i].currentValue + ret'.arg[1], stats[i])

\* C1: after any sequence of Stat operations minValue <= maxValue and
\* minValue <= currentValue <= maxValue, and a write whose target lies outside
\* the bounds is clamped to the nearest bound, never rejected.
C1_CurrentWithinBounds ==
    /\ [](\A i \in 1..Len(stats) : StatInBounds(stats[i]))
    /\ [][WriteClamped]_vars

\* a set(MaxNum) that met a lower maximum and was clamped to it
C1_Witness ==
    /\ ret.op = "set"
    /\ ret.arg = Some(MaxNum)
    /\ stats[1].maxValue < MaxNum
    /\ stats[1].minValue < stats[1].maxValue
    /\ stats[1].currentValue = stats[1].maxValue

\* C2: after any sequence of Stat operations, setBounds included,
\* minValue <= baseValue <= maxValue.
C2_BaseWithinBounds ==
    \A i \in 1..Len(stats) :
        /\ stats[i].minValue <= stats[i].baseValue
        /\ stats[i].baseValue <= stats[i].maxValue

Overrides(s) == OfType(s.modifiers, "override")

\* C8: with an override modifier in the stack finalValue is the override's
\* value clamped to the bounds, whatever currentValue and the other modifiers
\* are; of several overrides the last added decides.
C8_OverrideWins ==
    /\ [](\A i \in 1..Len(stats) :
            Overrides(stats[i]) # <<>> =>
                Stat_finalValue(stats[i])
                    = NearestBound(Overrides(stats[i])[Len(Overrides(stats[i]))].value,
                                   stats[i]))
    /\ [][\A i \in 1..Len(stats) :
            (ret'.op = "addModifier" /\ ret'.arg.type = "override") =>
                Stat_finalValue(stats'[i]) = NearestBound(ret'.arg.value, stats'[i])]_vars

\* an override above the maximum, added after another modifier that alone
\* would give a different value
C8_Witness ==
    /\ ret.op = "addModifier"
    /\ ret.arg.type = "override"
    /\ Len(stats[1].modifiers) = 2
    /\ stats[1].modifiers[1].type # "override"
    /\ ret.arg.value > stats[1].maxValue
    /\ stats[1].currentValue < stats[1].maxValue
    /\ Stat_finalValue(stats[1]) = stats[1].maxValue

\* what the percentage modifiers add to the value before the final clamp
PercentContribution(s) ==
    ModifierCollection_applyAll(s.modifiers, s.currentValue)
        - ModifierCollection_applyAll(
              SelectSeq(s.modifiers, LAMBDA m : m.type # "percent"), s.currentValue)

\* C9: without an override, the percentage-of-base modifiers contribute
\* percentage x baseValue, whatever currentValue has become.
C9_PercentOfBase ==
    \A i \in 1..Len(stats) :
        Overrides(stats[i]) = <<>> =>
            PercentContribution(stats[i])
                = SumSeq(ValuesOf(OfType(stats[i].modifiers, "percent")))
                      * stats[i].baseValue

\* C10: with an empty modifier stack finalValue equals currentValue.
C10_EmptyStackFinalIsCurrent ==
    \A i \in 1..Len(stats) :
        stats[i].modifiers = <<>> => Stat_finalValue(stats[i]) = stats[i].currentValue

\* a stack emptied by expiry, under a current value away from the base value
C10_Witness ==
    /\ ret.op = "tickStat"
    /\ Len(ret.val) > 0
    /\ stats[1].modifiers = <<>>
    /\ stats[1].currentValue # stats[1].baseValue
    /\ Stat_finalValue(stats[1]) = stats[1].currentValue

\* the opposite delta; a non-numeric delta has none and stays non-numeric
Negated(delta) == IF delta = None THEN None ELSE Some(0 - delta[1])

\* modify(d) then modify(-d) on s: both results and the value at the end
RoundTrip(s, d) ==
    LET there == Stat_modify(s, d)
        back == Stat_modify(there.stat, Negated(d))
    IN  [there |-> there.result, back |-> back.result,
         final |-> back.stat.currentValue]

\* C11: for every stat the operations can produce and every delta d,
\* modify(d) followed by modify(-d) ends on the currentValue it started
\* from whenever neither call reports wasClamped.
C11_ModifyRoundTrip ==
    \A d \in Opt(Deltas) :
        LET rt == RoundTrip(stats[1], d)
        IN  (~rt.there.wasClamped /\ ~rt.back.wasClamped)
                => rt.final = stats[1].currentValue

\* a stat left by modify on which one delta goes there and back unclamped
\* and moves the value in between, and another is clamped on the way and does
\* not come back
C11_Witness ==
    /\ ret.op = "modify"
    /\ \E d \in Deltas :
           LET rt == RoundTrip(stats[1], Some(d))
           IN  /\ d # 0
               /\ ~rt.there.wasClamped /\ ~rt.back.wasClamped
               /\ rt.there.newValue # stats[1].currentValue
               /\ rt.final = stats[1].currentValue
    /\ \E d \in Deltas :
           LET rt == RoundTrip(stats[1], Some(d))
           IN  /\ rt.there.wasClamped
               /\ rt.final # stats[1].currentValue

\* C18: modify(delta) returns oldValue (the value before), newValue (the value
\* after), actualChange = newValue - oldValue, requestedChange = delta (0 for
\* a non-numeric delta) and wasClamped, which is true exactly when the
\* clamped result differs from oldValue + delta, that is exactly when
\* actualChange differs from requestedChange.
C18_ModifyResult ==
    [][ret'.op = "modify" =>
          LET r == Stat_modify(stats[1], ret'.arg).result
              d == IF ret'.arg = None THEN 0 ELSE ret'.arg[1]
              target == stats[1].currentValue + d
          IN  /\ r.oldValue = stats[1].currentValue
              /\ r.newValue = stats'[1].currentValue
              /\ r.actualChange = r.newValue - r.oldValue
              /\ r.requestedChange = d
              /\ r.wasClamped \in BOOLEAN
              /\ r.wasClamped <=> (stats'[1].currentValue # target)
              /\ r.wasClamped <=> (r.actualChange # r.requestedChange)
              /\ r.wasClamped <=> (target < stats[1].minValue \/ target > stats[1].maxValue)
      ]_vars

\* a modify whose delta was cut short by a bound: part of it was applied
C18_Witness ==
    /\ ret.op = "modify"
    /\ ret.arg # None
    /\ ret.arg[1] = MaxNum
    /\ stats[1].currentValue = stats[1].maxValue
    /\ stats[1].minValue < stats[1].maxValue
    /\ stats[1].maxValue < MaxNum


\* the configurations without a baseValue that give the stat s
WithoutBase(s) ==
    {c \in ConfigInputs({"hp"}) \cup RestoreInputs({"hp"}) :
        c.baseValue = None /\ Stat_constructor(c) = s}

\* C26: a stat constructed, or restored by fromJSON, from a configuration
\* without a baseValue has baseValue 0 clamped into [minValue, maxValue].
C26_BaseDefaultsToZero ==
    ret.op \in {"new", "fromJSON"} /\ WithoutBase(stats[1]) # {} =>
        stats[1].baseValue = clamp(0, stats[1].minValue, stats[1].maxValue)

-----------------------------------------------------------------------------
(* SpecHist: the writes of one Stat, its change history under observation *)

HistValues == {0, 1, 2}

InitHist ==
    /\ active = TRUE
    /\ enabled = TRUE
    /\ turnCount = 0
    /\ \E base \in {0, 2} :
           stats = <<Stat_constructor(Config("hp", Some(base), None, Some(0), Some(2)))>>
    /\ ret = Ret("new", None, None)
    /\ tokenMode = DefaultTokenMode
    /\ listeners = NoListeners
    /\ notified = <<>>
    /\ changeHistory = [id \in {"hp"} |-> <<>>]

NextHist ==
    \/ \E d \in {0 - 1, 1} : Modify(1, Some(d))
    \/ \E v \in HistValues : Set(1, Some(v))
    \/ ResetStat(1)
    \/ \E mn \in Opt(HistValues), mx \in Opt(HistValues) : SetBounds(1, mn, mx)

SpecHist == InitHist /\ [][NextHist]_vars

\* h2 is h1 with one record pushed at the end, the oldest dropped when the
\* capacity would be exceeded
Pushed(h1, h2, rec) ==
    LET dropped == Len(h1) + 1 - Len(h2)
    IN  /\ Len(h2) = Min2(Len(h1) + 1, MaxHistoryLength)
        /\ h2[Len(h2)] = rec
        /\ \A k \in 1..(Len(h2) - 1) : h2[k] = h1[k + dropped]

\* what setBounds(mn, mx) has to leave of s: the requested (or kept) bounds,
\* swapped when the minimum is above the maximum, and the value clamped into them
BoundsSet(s, t, mn, mx) ==
    LET lo == IF mn = None THEN s.minValue ELSE mn[1]
        hi == IF mx = None THEN s.maxValue ELSE mx[1]
        reclamped == IF s.currentValue < t.minValue THEN t.minValue
                     ELSE IF s.currentValue > t.maxValue THEN t.maxValue
                     ELSE s.currentValue
    IN  /\ t.minValue <= t.maxValue
        /\ lo > hi => (t.minValue = hi /\ t.maxValue = lo)
        /\ lo <= hi => (t.minValue = lo /\ t.maxValue = hi)
        /\ t.currentValue = reclamped

\* C12: on every stat the writes can produce, setBounds with any minimum
\* and maximum leaves minValue <= maxValue, the two swapped when the minimum
\* is above the (new or current) maximum, and currentValue re-clamped into
\* the corrected range; and a step of setBounds pushes one history record,
\* from the old value to the re-clamped one, exactly when the re-clamp
\* changed currentValue.
C12_SetBoundsSwapsAndReclamps ==
    /\ [](\A mn \in Opt(HistValues), mx \in Opt(HistValues) :
              BoundsSet(stats[1], Stat_setBounds(stats[1], mn, mx), mn, mx))
    /\ [][ret'.op = "setBounds" =>
             LET s == stats[1]
                 t == stats'[1]
             IN  /\ \E mn \in Opt(HistValues), mx \in Opt(HistValues) :
                        t = Stat_setBounds(s, mn, mx)
                 /\ IF t.currentValue # s.currentValue
                    THEN Pushed(changeHistory[s.id], changeHistory'[s.id],
                                [oldValue |-> s.currentValue,
                                 newValue |-> t.currentValue,
                                 change |-> t.currentValue - s.currentValue])
                    ELSE changeHistory'[s.id] = changeHistory[s.id]
         ]_vars

\* setBounds with a minimum above the maximum: the two were swapped, the
\* value was below the new range and was raised into it, and the record of
\* that is the last of a history that has other records
C12_Witness ==
    /\ ret.op = "setBounds"
    /\ stats[1].minValue = 1 /\ stats[1].maxValue = 2
    /\ stats[1].currentValue = 1
    /\ Len(changeHistory["hp"]) >= 2
    /\ LET h == changeHistory["hp"]
       IN  /\ h[Len(h)] = [oldValue |-> 0, newValue |-> 1, change |-> 1]
           /\ h[Len(h) - 1].newValue = 0


\* a history is in order when each record starts from the value the record
\* before it left, and the newest leaves the value the stat has
InOrder(h, s) ==
    /\ \A k \in 1..(Len(h) - 1) : h[k].newValue = h[k + 1].oldValue
    /\ h # <<>> => h[Len(h)].newValue = s.currentValue

\* C21: the change history never holds more than 10 records, every record's
\* change is newValue - oldValue and is not zero, the records are in order
\* from the oldest to the newest, and a write pushes one record at the end
\* (dropping the oldest beyond the capacity) exactly when it changes
\* currentValue.
C21_HistoryBounded ==
    /\ [](LET h == changeHistory["hp"]
          IN  /\ Len(h) <= 10
              /\ \A k \in 1..Len(h) :
                     /\ h[k].change = h[k].newValue - h[k].oldValue
                     /\ h[k].change # 0
              /\ InOrder(h, stats[1]))
    /\ [][LET s == stats[1]
              t == stats'[1]
          IN  IF t.currentValue # s.currentValue
              THEN Pushed(changeHistory["hp"], changeHistory'["hp"],
                          [oldValue |-> s.currentValue,
                           newValue |-> t.currentValue,
                           change |-> t.currentValue - s.currentValue])
              ELSE changeHistory'["hp"] = changeHistory["hp"]
         ]_vars

\* a full history whose oldest record does not start from the value the
\* stat was constructed with: older records were dropped
C21_Witness ==
    /\ Len(changeHistory["hp"]) = 10
    /\ changeHistory["hp"][1].oldValue = 1
    /\ ret.op = "set"

-----------------------------------------------------------------------------
(* Stat.js: class StatManager (the registry: stats in insertion order)     *)

\* the position of the stat a (raw) identifier names, 0 when there is none
StatManager_indexOf(reg, statId) ==
    IF \E i \in 1..Len(reg) : reg[i].id = sanitizeId(statId)
    THEN CHOOSE i \in 1..Len(reg) : reg[i].id = sanitizeId(statId)
    ELSE 0

\* has(statId)
StatManager_has(reg, statId) == StatManager_indexOf(reg, statId) # 0

\* add(stat): a Map keeps the position of a key that is set again
StatManager_add(reg, config) ==
    LET s == Stat_constructor(config)
        i == StatManager_indexOf(reg, s.id)
    IN  IF i # 0 THEN [reg EXCEPT ![i] = s] ELSE Append(reg, s)

\* remove(statId)
StatManager_remove(reg, statId) ==
    SelectSeq(reg, LAMBDA s : s.id # sanitizeId(statId))

\* addModifier(statId, modifier): null (None) when the stat is missing
StatManager_addModifier(reg, statId, m) ==
    LET i == StatManager_indexOf(reg, statId)
    IN  IF i = 0 THEN [stats |-> reg, result |-> None]
        ELSE [stats |-> [reg EXCEPT ![i] = Stat_addModifier(reg[i], m)],
              result |-> Some(m.id)]

\* removeModifier(statId, modifierId)
StatManager_removeModifier(reg, statId, modifierId) ==
    LET i == StatManager_indexOf(reg, statId)
    IN  IF i = 0 THEN [stats |-> reg, result |-> FALSE]
        ELSE LET r == Stat_removeModifier(reg[i], modifierId)
             IN  [stats |-> [reg EXCEPT ![i] = r.stat], result |-> r.result]

\* A listener is [name, throws]: a callback, and whether it throws when it is
\* called.  A call is [channel, listener, event, seen]: the registry it was
\* made from, the callback, the stat id or event type it was made about, and
\* the value (of the stat, of the turn counter) the callback found.
Listener(name, throws) == [name |-> name, throws |-> throws]

Call(channel, l, event, seen) ==
    [channel |-> channel, listener |-> l.name, event |-> event, seen |-> seen]

\* for (const listener of ls) { try { listener(..) } catch (e) { log } }
CallAll(ls, channel, event, seen) ==
    [calls |-> [i \in 1..Len(ls) |-> Call(channel, ls[i], event, seen)],
     threw |-> FALSE]

\* the same loop without the try/catch: it ends at the first listener that
\* throws, and the exception leaves it
CallUntilThrow(ls, channel, event, seen) ==
    LET throwers == {i \in 1..Len(ls) : ls[i].throws}
        last == IF throwers = {} THEN Len(ls)
                ELSE CHOOSE i \in throwers : \A j \in throwers : i <= j
    IN  [calls |-> [i \in 1..last |-> Call(channel, ls[i], event, seen)],
         threw |-> throwers # {}]

\* _notifyChange(stat, result)
StatManager_notifyChange(ls, stat) ==
    CallAll(ls, "change", stat.id, stat.currentValue)

\* modify(statId, delta) that notifies the listeners of a miss as well
StatManager_modify_notifyMiss(reg, ls, statId, delta) ==
    LET i == StatManager_indexOf(reg, statId)
    IN  IF i = 0
        THEN [stats |-> reg, result |-> None,
              calls |-> CallAll(ls, "change", statId, 0).calls, threw |-> FALSE]
        ELSE LET r == Stat_modify(reg[i], delta)
                 n == StatManager_notifyChange(ls, r.stat)
             IN  [stats |-> [reg EXCEPT ![i] = r.stat], result |-> r.result,
                  calls |-> n.calls, threw |-> n.threw]

\* modify(statId, delta): null (None) when the stat is missing
StatManager_modify(reg, ls, statId, delta) ==
    LET i == StatManager_indexOf(reg, statId)
    IN  IF i = 0
        THEN [stats |-> reg, result |-> None, calls |-> <<>>, threw |-> FALSE]
        ELSE LET r == Stat_modify(reg[i], delta)
                 n == StatManager_notifyChange(ls, r.stat)
             IN  [stats |-> [reg EXCEPT ![i] = r.stat], result |-> r.result,
                  calls |-> n.calls, threw |-> n.threw]

\* set(statId, value): null (None) when the stat is missing
StatManager_set(reg, ls, statId, value) ==
    LET i == StatManager_indexOf(reg, statId)
    IN  IF i = 0
        THEN [stats |-> reg, result |-> None, calls |-> <<>>, threw |-> FALSE]
        ELSE LET r == Stat_set(reg[i], value)
                 n == StatManager_notifyChange(ls, r.stat)
             IN  [stats |-> [reg EXCEPT ![i] = r.stat], result |-> r.result,
                  calls |-> n.calls, threw |-> n.threw]

\* getVisible() that looks at the showInUI flag alone
StatManager_getVisible_flagOnly(reg) == SelectSeq(reg, LAMBDA s : s.showInUI)

\* getVisible()
StatManager_getVisible(reg) ==
    SelectSeq(reg, LAMBDA s : s.showInUI /\ s.displayMode # "hidden")

\* toJSON()
StatManager_toJSON(reg) == [stats |-> [i \in 1..Len(reg) |-> Stat_toJSON(reg[i])]]

\* fromJSON(data): the stats of data.stats set one after the other into an
\* empty Map; data without a stats array leaves it empty
RECURSIVE StatManager_setAll(_, _)
StatManager_setAll(reg, statsData) ==
    IF statsData = <<>> THEN reg
    ELSE LET s == Stat_fromJSON(statsData[1])
             i == StatManager_indexOf(reg, s.id)
         IN  StatManager_setAll(IF i # 0 THEN [reg EXCEPT ![i] = s] ELSE Append(reg, s),
                                Tail(statsData))

StatManager_fromJSON(data) ==
    IF "stats" \in DOMAIN data THEN StatManager_setAll(<<>>, data.stats) ELSE <<>>

\* tick() that reports every stat, also those where nothing expired
StatManager_tick_reportAll(reg) ==
    LET ticked == [i \in 1..Len(reg) |-> Stat_tick(reg[i])]
    IN  [stats |-> [i \in 1..Len(reg) |-> ticked[i].stat],
         expired |-> [id \in {reg[i].id : i \in 1..Len(reg)} |->
                         ticked[CHOOSE i \in 1..Len(reg) : reg[i].id = id].expired]]

\* tick(): every stat ticked; expired maps a stat id to the ids that expired,
\* for the stats where some did
StatManager_tick(reg) ==
    LET ticked == [i \in 1..Len(reg) |-> Stat_tick(reg[i])]
        hit == {i \in 1..Len(reg) : Len(ticked[i].expired) > 0}
    IN  [stats |-> [i \in 1..Len(reg) |-> ticked[i].stat],
         expired |-> [id \in {reg[i].id : i \in hit} |->
                         ticked[CHOOSE i \in hit : reg[i].id = id].expired]]

\* resetAll()
StatManager_resetAll(reg) == [i \in 1..Len(reg) |-> Stat_reset(reg[i]).stat]

-----------------------------------------------------------------------------
(* StateManager.js: class SimulationState *)

\* constructor(id) that starts the counter at 1
SimulationState_constructor_turnOne == [turnCount |-> 1, stats |-> <<>>]

\* constructor(id): turn 0 and a new, empty StatManager
SimulationState_constructor == [turnCount |-> 0, stats |-> <<>>]

\* tick() that returns the turn number it started from
SimulationState_tick_staleTurn(turn, reg) ==
    LET r == StatManager_tick(reg)
    IN  [turnCount |-> turn + 1,
         stats |-> r.stats,
         result |-> [turn |-> turn, expiredModifiers |-> r.expired]]

\* tick()
SimulationState_tick(turn, reg) ==
    LET r == StatManager_tick(reg)
    IN  [turnCount |-> turn + 1,
         stats |-> r.stats,
         result |-> [turn |-> turn + 1, expiredModifiers |-> r.expired]]

\* reset() that leaves the turn counter alone
SimulationState_reset_keepTurn(turn, reg) ==
    [turnCount |-> turn, stats |-> StatManager_resetAll(reg)]

\* reset()
SimulationState_reset(turn, reg) ==
    [turnCount |-> 0, stats |-> StatManager_resetAll(reg)]

\* A JSON value is [type |-> "null"], [type |-> "number", value |-> n] or an
\* object, [type |-> "object"] with its fields.  A text is [parses, value]:
\* whether JSON.parse accepts it, and the value it then gives.
JsonNull == [type |-> "null"]
JsonNumber(n) == [type |-> "number", value |-> n]
JsonObject(fields) == [type |-> "object"] @@ fields

JSON_stringify(value) == [parses |-> TRUE, value |-> value]
Unparsable == [parses |-> FALSE, value |-> JsonNull]

\* Utils.safeJsonParse(text, fallback): the parsed value, the fallback when
\* the text does not parse
safeJsonParse(text, fallback) == IF text.parses THEN text.value ELSE fallback

\* Utils.isPlainObject(value)
isPlainObject(v) == v.type = "object"

\* !value is false: of the JSON values, null and 0 are not truthy
Truthy(v) == v.type # "null" /\ ~(v.type = "number" /\ v.value = 0)

\* toJSON(): the turn counter and the registry
SimulationState_toJSON(turn, reg) ==
    [turnCount |-> turn, statManager |-> StatManager_toJSON(reg)]

\* static fromJSON(data)
SimulationState_fromJSON(data) ==
    IF ~isPlainObject(data) THEN SimulationState_constructor
    ELSE [turnCount |-> IF "turnCount" \in DOMAIN data THEN data.turnCount ELSE 0,
          stats |-> IF "statManager" \in DOMAIN data
                    THEN StatManager_fromJSON(data.statManager)
                    ELSE SimulationState_constructor.stats]

-----------------------------------------------------------------------------
(* Parser.js: a message is a sequence of tokens, each a well-formed        *)
(* command or a malformed one; parseValid keeps the well-formed commands   *)
(* in textual order.                                                       *)

CommandToken(statId, type, value) ==
    [kind |-> "command", statId |-> statId, type |-> type, value |-> value]

MalformedToken == [kind |-> "malformed", statId |-> "", type |-> "", value |-> 0]

RECURSIVE parseValid(_)
parseValid(message) ==
    IF message = <<>> THEN <<>>
    ELSE (IF message[1].kind = "command"
          THEN <<[statId |-> message[1].statId, type |-> message[1].type,
                  value |-> message[1].value]>>
          ELSE <<>>)
         \o parseValid(Tail(message))

\* A text is a sequence of lexemes: the delimiters, the separator and the
\* assignment marker of the default configuration, and words.
OpenTag == "{{"
CloseTag == "}}"
Separator == ":"
SetMarker == "="

\* the numeric literals among the words, and the numbers they denote
NumericLiterals == [w \in {"-5", "20"} |-> IF w = "-5" THEN 0 - 5 ELSE 20]

\* the number a word denotes, None for a word that is no numeric literal
parseNumber(w) == IF w \in DOMAIN NumericLiterals THEN Some(NumericLiterals[w]) ELSE None

isIdentifier(w) == w \notin {OpenTag, CloseTag, Separator, SetMarker}

\* the token a matched pair of delimiters encloses
StatParser_token(content) ==
    IF /\ Len(content) = 3
       /\ isIdentifier(content[1])
       /\ content[2] = Separator
       /\ parseNumber(content[3]) # None
    THEN CommandToken(content[1], "MODIFY", parseNumber(content[3])[1])
    ELSE IF /\ Len(content) = 4
            /\ isIdentifier(content[1])
            /\ content[2] = Separator
            /\ content[3] = SetMarker
            /\ parseNumber(content[4]) # None
    THEN CommandToken(content[1], "SET", parseNumber(content[4])[1])
    ELSE MalformedToken

\* the scan from position pos on, open being the position of the open
\* delimiter not yet closed (0 when there is none): a close delimiter ends
\* the nearest open one before it, an open delimiter that is never closed
\* is a malformed token, and everything else is narrative
RECURSIVE StatParser_scan(_, _, _)
StatParser_scan(text, pos, open) ==
    IF pos > Len(text)
    THEN (IF open # 0 THEN <<MalformedToken>> ELSE <<>>)
    ELSE IF text[pos] = OpenTag
    THEN (IF open # 0 THEN <<MalformedToken>> ELSE <<>>)
         \o StatParser_scan(text, pos + 1, pos)
    ELSE IF text[pos] = CloseTag /\ open # 0
    THEN <<StatParser_token(SubSeq(text, open + 1, pos - 1))>>
         \o StatParser_scan(text, pos + 1, 0)
    ELSE StatParser_scan(text, pos + 1, open)

\* parse(text): every token of the text, malformed ones included
StatParser_parse(text) == StatParser_scan(text, 1, 0)

-----------------------------------------------------------------------------
(* StateManager.js: class StateManager *)

\* the loop, leaving at the first command whose stat is missing
RECURSIVE ApplyCommands_stopOnMiss(_, _)
ApplyCommands_stopOnMiss(reg, commands) ==
    IF commands = <<>> THEN [stats |-> reg, changes |-> <<>>]
    ELSE LET cmd == commands[1]
             i == StatManager_indexOf(reg, cmd.statId)
         IN  IF i = 0
             THEN [stats |-> reg,
                   changes |-> <<[statId |-> cmd.statId, success |-> FALSE,
                                  error |-> "Stat not found"]>>]
             ELSE LET r == IF cmd.type = "SET"
                           THEN Stat_set(reg[i], Some(cmd.value))
                           ELSE Stat_modify(reg[i], Some(cmd.value))
                      rest == ApplyCommands_stopOnMiss([reg EXCEPT ![i] = r.stat],
                                                       Tail(commands))
                  IN  [stats |-> rest.stats,
                       changes |-> <<[statId |-> cmd.statId, success |-> TRUE,
                                      commandType |-> cmd.type] @@ r.result>>
                                   \o rest.changes]

\* the loop, computing every command against the registry as it was at the start
RECURSIVE ApplyCommands_fromSnapshot(_, _, _)
ApplyCommands_fromSnapshot(snapshot, reg, commands) ==
    IF commands = <<>> THEN [stats |-> reg, changes |-> <<>>]
    ELSE LET cmd == commands[1]
             i == StatManager_indexOf(reg, cmd.statId)
         IN  IF i = 0
             THEN LET rest == ApplyCommands_fromSnapshot(snapshot, reg, Tail(commands))
                  IN  [stats |-> rest.stats,
                       changes |-> <<[statId |-> cmd.statId, success |-> FALSE,
                                      error |-> "Stat not found"]>>
                                   \o rest.changes]
             ELSE LET r == IF cmd.type = "SET"
                           THEN Stat_set(snapshot[i], Some(cmd.value))
                           ELSE Stat_modify(snapshot[i], Some(cmd.value))
                      rest == ApplyCommands_fromSnapshot(
                                  snapshot, [reg EXCEPT ![i] = r.stat], Tail(commands))
                  IN  [stats |-> rest.stats,
                       changes |-> <<[statId |-> cmd.statId, success |-> TRUE,
                                      commandType |-> cmd.type] @@ r.result>>
                                   \o rest.changes]

ApplyCommands_stale(reg, commands) == ApplyCommands_fromSnapshot(reg, reg, commands)

\* the loop of processMessage over the parsed commands
RECURSIVE ApplyCommands(_, _)
ApplyCommands(reg, commands) ==
    IF commands = <<>> THEN [stats |-> reg, changes |-> <<>>]
    ELSE LET cmd == commands[1]
             i == StatManager_indexOf(reg, cmd.statId)
         IN  IF i = 0
             THEN LET rest == ApplyCommands(reg, Tail(commands))
                  IN  [stats |-> rest.stats,
                       changes |-> <<[statId |-> cmd.statId, success |-> FALSE,
                                      error |-> "Stat not found"]>>
                                   \o rest.changes]
             ELSE LET r == IF cmd.type = "SET"
                           THEN Stat_set(reg[i], Some(cmd.value))
                           ELSE Stat_modify(reg[i], Some(cmd.value))
                      rest == ApplyCommands([reg EXCEPT ![i] = r.stat], Tail(commands))
                  IN  [stats |-> rest.stats,
                       changes |-> <<[statId |-> cmd.statId, success |-> TRUE,
                                      commandType |-> cmd.type] @@ r.result>>
                                   \o rest.changes]

\* processMessage(message) that takes every token for a command
StateManager_processMessage_unvalidated(isActive, isEnabled, reg, message) ==
    IF ~isActive
    THEN [stats |-> reg,
          result |-> [success |-> FALSE, error |-> "No active state", changes |-> <<>>]]
    ELSE IF ~isEnabled
    THEN [stats |-> reg,
          result |-> [success |-> TRUE, changes |-> <<>>, disabled |-> TRUE]]
    ELSE LET r == ApplyCommands(reg, message)
         IN  [stats |-> r.stats,
              result |-> [success |-> TRUE, changes |-> r.changes,
                          commandCount |-> Len(message)]]

\* processMessage(message)
StateManager_processMessage(isActive, isEnabled, reg, message) ==
    IF ~isActive
    THEN [stats |-> reg,
          result |-> [success |-> FALSE, error |-> "No active state", changes |-> <<>>]]
    ELSE IF ~isEnabled
    THEN [stats |-> reg,
          result |-> [success |-> TRUE, changes |-> <<>>, disabled |-> TRUE]]
    ELSE LET commands == parseValid(message)
             r == ApplyCommands(reg, commands)
         IN  [stats |-> r.stats,
              result |-> [success |-> TRUE, changes |-> r.changes,
                          commandCount |-> Len(commands)]]

\* _notifyStateChange that hands every listener the same event type
StateManager_notifyStateChange_untyped(ls, eventType, turn) ==
    CallAll(ls, "state", "change", turn)

\* _notifyStateChange(eventType, data)
StateManager_notifyStateChange(ls, eventType, turn) ==
    CallAll(ls, "state", eventType, turn)

\* _notifyStatChange(stat, result) without its try/catch
StateManager_notifyStatChange_noCatch(ls, statId, newValue) ==
    CallUntilThrow(ls, "stat", statId, newValue)

\* _notifyStatChange(stat, result)
StateManager_notifyStatChange(ls, statId, newValue) ==
    CallAll(ls, "stat", statId, newValue)

\* the value the last applied entry of changes left on the stat named id
RECURSIVE FinalValue(_, _, _)
FinalValue(changes, id, value) ==
    IF changes = <<>> THEN value
    ELSE FinalValue(Tail(changes), id,
                    IF changes[1].success /\ sanitizeId(changes[1].statId) = id
                    THEN changes[1].newValue ELSE value)

\* the notifications of processMessage held back until its loop is over:
\* the listeners find on the stat what the whole message left there
NotifyChanges_afterLoop(ls, changes) ==
    LET applied == SelectSeq(changes, LAMBDA c : c.success)
        round(k) == StateManager_notifyStatChange(
                        ls, sanitizeId(applied[k].statId),
                        FinalValue(changes, sanitizeId(applied[k].statId), 0)).calls
        rounds[k \in 0..Len(applied)] ==
            IF k = 0 THEN <<>> ELSE rounds[k - 1] \o round(k)
    IN  [calls |-> rounds[Len(applied)], threw |-> FALSE]

\* the notifications of the loop of processMessage: one round of the stat
\* listeners after each command that was applied
RECURSIVE NotifyChanges(_, _)
NotifyChanges(ls, changes) ==
    IF changes = <<>> THEN [calls |-> <<>>, threw |-> FALSE]
    ELSE IF ~changes[1].success THEN NotifyChanges(ls, Tail(changes))
    ELSE LET n == StateManager_notifyStatChange(ls, sanitizeId(changes[1].statId),
                                                changes[1].newValue)
             rest == NotifyChanges(ls, Tail(changes))
         IN  IF n.threw THEN n
             ELSE [calls |-> n.calls \o rest.calls, threw |-> rest.threw]

\* what the caller of an operation gets when an exception leaves it
Thrown == [thrown |-> TRUE]

\* the histories after the writes that gave the entries of changes, in order
RECURSIVE RecordedAll(_, _)
RecordedAll(h, changes) ==
    IF changes = <<>> THEN h
    ELSE RecordedAll(IF changes[1].success
                     THEN Recorded(h, sanitizeId(changes[1].statId),
                                   changes[1].oldValue, changes[1].newValue)
                     ELSE h,
                     Tail(changes))

\* the histories after an operation that wrote each stat at most once
RecordedEach(h, before, after) ==
    [id \in DOMAIN h |->
        IF \E i \in 1..Len(before) :
               before[i].id = id /\ before[i].currentValue # after[i].currentValue
        THEN LET i == CHOOSE i \in 1..Len(before) : before[i].id = id
             IN  Stat_recordChange(h[id], before[i].currentValue, after[i].currentValue)
        ELSE h[id]]

ProcessMessage(message) ==
    LET r == StateManager_processMessage(active, enabled, stats, message)
        n == NotifyChanges(listeners.stat, r.result.changes)
    IN  /\ stats' = r.stats
        /\ ret' = Ret("processMessage", message, IF n.threw THEN Thrown ELSE r.result)
        /\ notified' = n.calls
        /\ changeHistory' = RecordedAll(changeHistory, r.result.changes)
        /\ UNCHANGED session

\* processMessage(message), on the text of the message
ProcessText(text) ==
    LET r == StateManager_processMessage(active, enabled, stats, StatParser_parse(text))
        n == NotifyChanges(listeners.stat, r.result.changes)
    IN  /\ stats' = r.stats
        /\ ret' = Ret("processText", text, IF n.threw THEN Thrown ELSE r.result)
        /\ notified' = n.calls
        /\ changeHistory' = RecordedAll(changeHistory, r.result.changes)
        /\ UNCHANGED session

\* tick()
Tick ==
    IF ~active
    THEN /\ ret' = Ret("tick", None, [success |-> FALSE, error |-> "No active state"])
         /\ notified' = <<>>
         /\ UNCHANGED <<session, stats, changeHistory>>
    ELSE LET r == SimulationState_tick(turnCount, stats)
             n == StateManager_notifyStateChange(listeners.state, "tick", r.turnCount)
         IN  /\ turnCount < MaxTurn
             /\ turnCount' = r.turnCount
             /\ stats' = r.stats
             /\ ret' = Ret("tick", None,
                           IF n.threw THEN Thrown ELSE [success |-> TRUE] @@ r.result)
             /\ notified' = n.calls
             /\ UNCHANGED <<active, enabled, tokenMode, listeners, changeHistory>>

\* reset()
Reset ==
    IF ~active
    THEN /\ ret' = Ret("reset", None, None)
         /\ notified' = <<>>
         /\ UNCHANGED <<session, stats, changeHistory>>
    ELSE LET r == SimulationState_reset(turnCount, stats)
             n == StateManager_notifyStateChange(listeners.state, "reset", r.turnCount)
         IN  /\ turnCount' = r.turnCount
             /\ stats' = r.stats
             /\ ret' = Ret("reset", None, IF n.threw THEN Thrown ELSE None)
             /\ notified' = n.calls
             /\ changeHistory' = RecordedEach(changeHistory, stats, r.stats)
             /\ UNCHANGED <<active, enabled, tokenMode, listeners>>

\* the session once currentState is a SimulationState that was just built:
\* its registry has no listener yet, its stats are new objects
Installed(state) ==
    /\ active' = TRUE
    /\ turnCount' = state.turnCount
    /\ stats' = state.stats
    /\ listeners' = [listeners EXCEPT !.change = <<>>]
    /\ changeHistory' = Forgotten(changeHistory, DOMAIN changeHistory)

\* createNewState(name): a new SimulationState
CreateNewState ==
    LET state == SimulationState_constructor
        n == StateManager_notifyStateChange(listeners.state, "new", state.turnCount)
    IN  /\ Installed(state)
        /\ ret' = Ret("createNewState", None, IF n.threw THEN Thrown ELSE None)
        /\ notified' = n.calls
        /\ UNCHANGED <<enabled, tokenMode>>

\* _loadSettings(context): the defaults, overridden by what the host saved
StateManager_loadSettings(saved) ==
    [enabled |-> IF "enabled" \in DOMAIN saved THEN saved.enabled ELSE TRUE,
     tokenMode |-> IF "tokenMode" \in DOMAIN saved THEN saved.tokenMode
                   ELSE DefaultTokenMode]

\* initialize(context), for a chat that has no state saved: the settings of
\* the host, and a new state
InitializeWith(saved) ==
    LET settings == StateManager_loadSettings(saved)
    IN  /\ enabled' = settings.enabled
        /\ tokenMode' = settings.tokenMode
        /\ Installed(SimulationState_constructor)
        /\ ret' = Ret("initialize", None, TRUE)
        /\ notified' = <<>>

Initialize(isEnabled) == InitializeWith([enabled |-> isEnabled])

\* the string ''
EmptyString == <<>>

\* getAIContext(): the string it returns, as the layout it has and one entry
\* per stat it was rendered from. An entry stands for "name:value" in the
\* single line and for "name: display (change)" in the block; it carries the
\* identifier of its stat where the string carries the display name. h is
\* the change history of each stat of reg.
StateManager_getAIContext(isActive, isEnabled, mode, reg, h) ==
    LET visible == StatManager_getVisible(reg)
    IN  IF ~isActive \/ ~isEnabled THEN EmptyString
        ELSE IF Len(visible) = 0 THEN EmptyString
        ELSE CASE mode = TokenMode.ZERO -> EmptyString
               [] mode = TokenMode.MINIMAL ->
                    [layout |-> "line",
                     entries |-> [i \in 1..Len(visible) |->
                                    [stat |-> visible[i].id,
                                     value |-> Stat_finalValue(visible[i])]]]
               [] mode = TokenMode.FULL ->
                    [layout |-> "block",
                     entries |-> [i \in 1..Len(visible) |->
                                    [stat |-> visible[i].id,
                                     display |-> Stat_getDisplayString(visible[i]),
                                     change |-> Stat_lastChange(h[visible[i].id])]]]
               [] OTHER -> EmptyString

GetAIContext ==
    /\ ret' = Ret("getAIContext", None,
                  StateManager_getAIContext(active, enabled, tokenMode, stats,
                                            changeHistory))
    /\ notified' = <<>>
    /\ UNCHANGED <<session, stats, changeHistory>>

\* exportState()
StateManager_exportState(isActive, turn, reg) ==
    IF ~isActive THEN JSON_stringify(JsonObject(<<>>))
    ELSE JSON_stringify(JsonObject(SimulationState_toJSON(turn, reg)))

\* importState(jsonString) that installs the default state when the text
\* does not parse
StateManager_importState_defaultOnGarbage(jsonString) ==
    LET data == safeJsonParse(jsonString, JsonNull)
    IN  [ok |-> TRUE, state |-> SimulationState_fromJSON(data)]

\* importState(jsonString): whether it succeeded, and the state it installs
StateManager_importState(jsonString) ==
    LET data == safeJsonParse(jsonString, JsonNull)
    IN  IF ~Truthy(data)
        THEN [ok |-> FALSE, state |-> SimulationState_constructor]
        ELSE [ok |-> TRUE, state |-> SimulationState_fromJSON(data)]

ImportState(jsonString) ==
    LET r == StateManager_importState(jsonString)
        n == StateManager_notifyStateChange(listeners.state, "import", r.state.turnCount)
    IN  IF ~r.ok
        THEN /\ ret' = Ret("importState", jsonString, FALSE)
             /\ notified' = <<>>
             /\ UNCHANGED <<session, stats, changeHistory>>
        ELSE /\ Installed(r.state)
             /\ ret' = Ret("importState", jsonString, IF n.threw THEN Thrown ELSE TRUE)
             /\ notified' = n.calls
             /\ UNCHANGED <<enabled, tokenMode>>

\* importState(exportState())
ImportExported == ImportState(StateManager_exportState(active, turnCount, stats))

\* currentState.statManager.add(config) / remove(statId)
AddStat(config) ==
    /\ active
    /\ stats' = StatManager_add(stats, config)
    /\ ret' = Ret("add", None, None)
    /\ changeHistory' = Forgotten(changeHistory, {Stat_constructor(config).id})
    /\ notified' = <<>>
    /\ UNCHANGED session

RemoveStat(statId) ==
    /\ active
    /\ stats' = StatManager_remove(stats, statId)
    /\ ret' = Ret("remove", statId, StatManager_has(stats, statId))
    /\ changeHistory' = Forgotten(changeHistory, {sanitizeId(statId)})
    /\ notified' = <<>>
    /\ UNCHANGED session

\* currentState.statManager.addModifier / removeModifier
RegistryAddModifier(statId, m) ==
    LET r == StatManager_addModifier(stats, statId, m)
    IN  /\ active
        /\ stats' = r.stats
        /\ ret' = Ret("registryAddModifier", statId, r.result)
        /\ notified' = <<>>
        /\ UNCHANGED <<session, changeHistory>>

RegistryRemoveModifier(statId, modifierId) ==
    LET r == StatManager_removeModifier(stats, statId, modifierId)
    IN  /\ active
        /\ stats' = r.stats
        /\ ret' = Ret("registryRemoveModifier", statId, r.result)
        /\ notified' = <<>>
        /\ UNCHANGED <<session, changeHistory>>

\* currentState.statManager.modify / set
RegistryModify(statId, delta) ==
    LET r == StatManager_modify(stats, listeners.change, statId, delta)
    IN  /\ active
        /\ stats' = r.stats
        /\ ret' = Ret("registryModify", statId, IF r.threw THEN Thrown ELSE r.result)
        /\ notified' = r.calls
        /\ changeHistory' = RecordedEach(changeHistory, stats, r.stats)
        /\ UNCHANGED session

RegistrySet(statId, value) ==
    LET r == StatManager_set(stats, listeners.change, statId, value)
    IN  /\ active
        /\ stats' = r.stats
        /\ ret' = Ret("registrySet", statId, IF r.threw THEN Thrown ELSE r.result)
        /\ notified' = r.calls
        /\ changeHistory' = RecordedEach(changeHistory, stats, r.stats)
        /\ UNCHANGED session

\* currentState.statManager.onChange(listener) / onStatChange(listener) /
\* onStateChange(listener); what is not a function (None) is not registered
Subscribed(ls, l) == IF l = None THEN ls ELSE Append(ls, l)

OnChange(l) ==
    /\ active
    /\ Len(listeners.change) < MaxListeners
    /\ listeners' = [listeners EXCEPT !.change = Subscribed(@, l)]
    /\ ret' = Ret("onChange", l, None)
    /\ notified' = <<>>
    /\ UNCHANGED <<active, enabled, turnCount, tokenMode, stats, changeHistory>>

OnStatChange(l) ==
    /\ Len(listeners.stat) < MaxListeners
    /\ listeners' = [listeners EXCEPT !.stat = Subscribed(@, l)]
    /\ ret' = Ret("onStatChange", l, None)
    /\ notified' = <<>>
    /\ UNCHANGED <<active, enabled, turnCount, tokenMode, stats, changeHistory>>

OnStateChange(l) ==
    /\ Len(listeners.state) < MaxListeners
    /\ listeners' = [listeners EXCEPT !.state = Subscribed(@, l)]
    /\ ret' = Ret("onStateChange", l, None)
    /\ notified' = <<>>
    /\ UNCHANGED <<active, enabled, turnCount, tokenMode, stats, changeHistory>>

\* the array without its k-th element: splice(k, 1)
Without(arr, k) == SubSeq(arr, 1, k - 1) \o SubSeq(arr, k + 1, Len(arr))

\* indexOf(listener), counted from 1; 0 when the function is not in the array
IndexOfListener(arr, name) ==
    IF \E i \in 1..Len(arr) : arr[i].name = name
    THEN CHOOSE i \in 1..Len(arr) :
             arr[i].name = name /\ \A j \in 1..(i - 1) : arr[j].name # name
    ELSE 0

\* the function onChange / onStatChange / onStateChange returns, called:
\* the array without the first element that is the listener
Unsubscribed(arr, name) ==
    IF IndexOfListener(arr, name) > 0
    THEN Without(arr, IndexOfListener(arr, name))
    ELSE arr

\* An unsubscribe function the host holds is [channel, listener, position]:
\* the array and the function it closes over, and where in the array the
\* registration it was returned for is now (0 once that element is gone).
Handle(channel, name, position) ==
    [channel |-> channel, listener |-> name, position |-> position]

\* the handles once the k-th element of the array of channel is gone
Shifted(handles, channel, k) ==
    [n \in 1..Len(handles) |->
        IF handles[n].channel # channel \/ k = 0 THEN handles[n]
        ELSE IF handles[n].position = k THEN [handles[n] EXCEPT !.position = 0]
        ELSE IF handles[n].position > k
             THEN [handles[n] EXCEPT !.position = @ - 1]
        ELSE handles[n]]

\* onChange / onStatChange / onStateChange(listener), the host keeping the
\* function returned
Subscribe(channel, l) ==
    /\ channel = "change" => active
    /\ Len(listeners[channel]) < MaxListeners
    /\ Len(listeners.handles) < MaxListeners + 1
    /\ listeners' = [listeners EXCEPT
                       ![channel] = Append(@, l),
                       !.handles = Append(@, Handle(channel, l.name,
                                                     Len(listeners[channel]) + 1))]
    /\ ret' = Ret("subscribe", <<channel, l.name>>, Len(listeners.handles) + 1)
    /\ notified' = <<>>
    /\ UNCHANGED <<active, enabled, turnCount, tokenMode, stats, changeHistory>>

\* the host calls the n-th unsubscribe function it holds
Unsubscribe(n) ==
    LET h == listeners.handles[n]
        arr == listeners[h.channel]
    IN  /\ listeners' = [listeners EXCEPT
                           ![h.channel] = Unsubscribed(arr, h.listener),
                           !.handles = Shifted(@, h.channel,
                                               IndexOfListener(arr, h.listener))]
        /\ ret' = Ret("unsubscribe", n, None)
        /\ notified' = <<>>
        /\ UNCHANGED <<active, enabled, turnCount, tokenMode, stats, changeHistory>>

\* A listener may act on the array it is called from: call the unsubscribe
\* function of a listener (its own or another's), or register a listener.
Unsubscriber(name, whom) == Listener(name, FALSE) @@ [unsubscribes |-> whom]
Subscriber(name, l) == Listener(name, FALSE) @@ [subscribes |-> l]

\* the array once the callback of l has run
AfterCall(arr, l) ==
    IF "unsubscribes" \in DOMAIN l THEN Unsubscribed(arr, l.unsubscribes)
    ELSE IF "subscribes" \in DOMAIN l THEN Append(arr, l.subscribes)
    ELSE arr

\* for (const listener of arr) { try { listener(..) } catch .. } from the
\* i-th element on: the iterator reads the array as it is at each step
RECURSIVE ForOf(_, _, _, _, _)
ForOf(arr, i, channel, event, seen) ==
    IF i > Len(arr) THEN [listeners |-> arr, calls |-> <<>>]
    ELSE LET rest == ForOf(AfterCall(arr, arr[i]), i + 1, channel, event, seen)
         IN  [listeners |-> rest.listeners,
              calls |-> <<Call(channel, arr[i], event, seen)>> \o rest.calls]

\* the notifications of the loop of processMessage, and the array they leave
RECURSIVE NotifyChangesLive(_, _)
NotifyChangesLive(arr, changes) ==
    IF changes = <<>> THEN [listeners |-> arr, calls |-> <<>>]
    ELSE IF ~changes[1].success THEN NotifyChangesLive(arr, Tail(changes))
    ELSE LET n == ForOf(arr, 1, "stat", sanitizeId(changes[1].statId),
                        changes[1].newValue)
             rest == NotifyChangesLive(n.listeners, Tail(changes))
         IN  [listeners |-> rest.listeners, calls |-> n.calls \o rest.calls]

\* statManager.set(statId, value) and processMessage(message) with
\* listeners that may act on their array
RegistrySetLive(statId, value) ==
    LET r == StatManager_set(stats, <<>>, statId, value)
        n == IF r.result = None THEN [listeners |-> listeners.change, calls |-> <<>>]
             ELSE ForOf(listeners.change, 1, "change", sanitizeId(statId),
                        r.result.newValue)
    IN  /\ active
        /\ Len(n.listeners) <= MaxListeners + 1
        /\ stats' = r.stats
        /\ ret' = Ret("registrySet", statId, r.result)
        /\ notified' = n.calls
        /\ listeners' = [listeners EXCEPT !.change = n.listeners]
        /\ changeHistory' = RecordedEach(changeHistory, stats, r.stats)
        /\ UNCHANGED <<active, enabled, turnCount, tokenMode>>

ProcessMessageLive(message) ==
    LET r == StateManager_processMessage(active, enabled, stats, message)
        n == NotifyChangesLive(listeners.stat, r.result.changes)
    IN  /\ Len(n.listeners) <= MaxListeners + 1
        /\ stats' = r.stats
        /\ ret' = Ret("processMessage", message, r.result)
        /\ notified' = n.calls
        /\ listeners' = [listeners EXCEPT !.stat = n.listeners]
        /\ changeHistory' = RecordedAll(changeHistory, r.result.changes)
        /\ UNCHANGED <<active, enabled, turnCount, tokenMode>>

InitSession ==
    /\ active = FALSE
    /\ enabled = TRUE
    /\ turnCount = 0
    /\ stats = <<>>
    /\ ret = Ret("constructor", None, None)
    /\ tokenMode = DefaultTokenMode
    /\ listeners = NoListeners
    /\ notified = <<>>
    /\ changeHistory = <<>>

-----------------------------------------------------------------------------
(* SpecMsg: messages processed against a registry of plain stats *)

MsgConfigs == {Config(id, None, None, Some(0), Some(MaxNum)) : id \in StatIds}

CommandIds == {"hp", "HP", "mp"}

Tokens ==
    {CommandToken("hp", "MODIFY", 0 - 1), CommandToken("hp", "MODIFY", MaxNum),
     CommandToken("hp", "SET", 1), CommandToken("HP", "MODIFY", 0 - 1),
     CommandToken("mp", "SET", 1), MalformedToken}

RECURSIVE SeqsUpTo(_, _)
SeqsUpTo(S, n) ==
    IF n = 0 THEN {<<>>}
    ELSE LET shorter == SeqsUpTo(S, n - 1)
         IN  shorter \cup {Append(s, x) : s \in shorter, x \in S}

Messages == SeqsUpTo(Tokens, MaxMsgLen)

NextMsg ==
    \/ CreateNewState
    \/ \E e \in BOOLEAN : Initialize(e)
    \/ \E c \in MsgConfigs : AddStat(c)
    \/ \E id \in StatIds : RemoveStat(id)
    \/ \E m \in Messages : ProcessMessage(m)

SpecMsg == InitSession /\ [][NextMsg]_vars

-----------------------------------------------------------------------------
(* Spec: the session's turns: tick, reset, new state, modifiers ageing *)

SessionConfigs == {Config(id, None, None, Some(0), Some(MaxNum)) : id \in StatIds}

SessionModifiers ==
    {StatModifier("m1", "add", 1, d) : d \in Opt(1..MaxDur)}
    \cup {StatModifier("m2", "add", 1, Some(1))}

SessionMessages ==
    { <<CommandToken("hp", "MODIFY", 0 - 1)>>,
      <<CommandToken("mp", "SET", 1), MalformedToken, CommandToken("HP", "MODIFY", MaxNum)>> }

Next ==
    \/ CreateNewState
    \/ \E c \in SessionConfigs : AddStat(c)
    \/ \E i \in 1..Len(stats) : SetBounds(i, None, Some(1))
    \/ \E id \in StatIds, m \in SessionModifiers : RegistryAddModifier(id, m)
    \/ \E id \in StatIds, mid \in ModIds : RegistryRemoveModifier(id, mid)
    \/ \E m \in SessionMessages : ProcessMessage(m)
    \/ Tick
    \/ Reset

Spec == InitSession /\ [][Next]_vars

-----------------------------------------------------------------------------
(* SpecIO: states built, aged, exported and imported *)

IOConfigs ==
    {Config("hp", None, None, Some(0), Some(MaxNum)),
     Config("mp", Some(1), None, Some(0), Some(MaxNum))}

IOModifiers == {StatModifier("m1", "add", 1, Some(MaxDur))}

\* a serialized stat that did not come from toJSON: raw identifier, inverted
\* bounds, no current value, no display fields, no modifiers
ForeignStat ==
    [id |-> "HP", baseValue |-> Some(MaxNum), currentValue |-> None,
     minValue |-> Some(MaxNum), maxValue |-> Some(0)]

\* texts handed to importState: one that does not parse, and the JSON texts
\* null, 0, 5, {}, {"turnCount":2} and a state with one foreign stat
ImportTexts ==
    {Unparsable,
     JSON_stringify(JsonNull),
     JSON_stringify(JsonNumber(0)),
     JSON_stringify(JsonNumber(5)),
     JSON_stringify(JsonObject(<<>>)),
     JSON_stringify(JsonObject([turnCount |-> 2])),
     JSON_stringify(JsonObject([turnCount |-> 1,
                                statManager |-> [stats |-> <<ForeignStat>>]]))}

NextIO ==
    \/ CreateNewState
    \/ \E c \in IOConfigs : AddStat(c)
    \/ \E i \in 1..Len(stats) : SetBounds(i, None, Some(1))
    \/ \E m \in IOModifiers : RegistryAddModifier("hp", m)
    \/ ProcessMessage(<<CommandToken("mp", "SET", MaxNum)>>)
    \/ Tick
    \/ Reset
    \/ \E t \in ImportTexts : ImportState(t)
    \/ ImportExported
    \/ OnStateChange(Listener("watch", FALSE))

SpecIO == InitSession /\ [][NextIO]_vars

\* the live state of the session, and everything registered with it
LiveState == <<active, turnCount, stats, enabled, tokenMode, listeners, changeHistory>>

\* C13: importState on a text that does not parse returns false, changes
\* nothing of the live state and calls no listener; and every importState
\* either does that or installs the whole state its text describes.
C13_FailedImportKeepsState ==
    [][ret'.op = "importState" =>
          /\ ~ret'.arg.parses =>
                 ret'.val = FALSE /\ UNCHANGED LiveState /\ notified' = <<>>
          /\ \/ ret'.val = FALSE /\ UNCHANGED LiveState /\ notified' = <<>>
             \/ /\ ret'.val = TRUE
                /\ ret'.arg.parses
                /\ active'
                /\ [turnCount |-> turnCount', stats |-> stats']
                       = SimulationState_fromJSON(ret'.arg.value)
      ]_vars

\* a failed import of an unparsable text on a session that has a state with
\* turns and stats behind it, and a state listener that was not called
C13_Witness ==
    /\ ret.op = "importState"
    /\ ~ret.arg.parses
    /\ ret.val = FALSE
    /\ active
    /\ turnCount > 0
    /\ Len(stats) = 2
    /\ stats[1].modifiers # <<>>
    /\ listeners.state # <<>>
    /\ notified = <<>>

\* the serialized fields of the modifiers of a stat, as a set
ModifierSet(s) == Range(ModifierCollection_toJSON(s.modifiers))

\* C14: importState(exportState()) on an active state succeeds and gives
\* the same turn counter and the same stats in the same order, each with
\* the same currentValue, baseValue, minValue, maxValue and modifiers.
C14_ExportImportRoundTrip ==
    [][(/\ ret'.op = "importState"
        /\ active
        /\ ret'.arg = StateManager_exportState(active, turnCount, stats))
       => /\ ret'.val = TRUE
          /\ turnCount' = turnCount
          /\ Len(stats') = Len(stats)
          /\ \A i \in 1..Len(stats) :
                 /\ stats'[i].id = stats[i].id
                 /\ stats'[i].currentValue = stats[i].currentValue
                 /\ stats'[i].baseValue = stats[i].baseValue
                 /\ stats'[i].minValue = stats[i].minValue
                 /\ stats'[i].maxValue = stats[i].maxValue
                 /\ ModifierSet(stats'[i]) = ModifierSet(stats[i])
      ]_vars

\* C20: createNewState can be called in every state of the session, and it
\* always leaves an active state with turn 0 and no stats, whose installation
\* the caller sees complete; in the state it leaves, tick and processMessage
\* succeed and reset acts.
C20_CreateFromAnyState ==
    /\ [](ENABLED CreateNewState)
    /\ [][ret'.op = "createNewState" =>
             active' /\ turnCount' = 0 /\ stats' = <<>> /\ ret'.val = None]_vars
    /\ [](ret.op = "createNewState" =>
             /\ ENABLED (Tick /\ ret'.val.success /\ turnCount' = 1)
             /\ ENABLED (Reset /\ Len(notified') = Len(listeners.state))
             /\ StateManager_processMessage(active, enabled, stats, <<>>).result.success)

\* a new state that replaced one with turns and stats: the listener saw it
C20_Witness ==
    /\ ret.op = "createNewState"
    /\ active /\ turnCount = 0 /\ stats = <<>>
    /\ listeners.state # <<>>
    /\ Len(notified) = Len(listeners.state)
    /\ notified[1].event = "new"


\* one event of the type, handed to every state listener in turn, each
\* finding the turn counter the transition left
Emitted(calls, ls, eventType, turn) ==
    calls = [k \in 1..Len(ls) |-> Call("state", ls[k], eventType, turn)]

\* C28: a successful tick, reset, createNewState and importState each emit
\* one state-change event of their own type once the state has changed;
\* tick, reset and processMessage without an active state, and an
\* importState that returns false, emit none and change neither the state
\* nor the registrations.
C28_OneEventPerTransition ==
    [][/\ ret'.op = "tick" /\ active =>
              /\ turnCount' = turnCount + 1
              /\ ret'.val.success /\ ret'.val.turn = turnCount'
              /\ Emitted(notified', listeners.state, "tick", turnCount')
       /\ ret'.op = "reset" /\ active =>
              /\ turnCount' = 0
              /\ stats' = StatManager_resetAll(stats)
              /\ Emitted(notified', listeners.state, "reset", turnCount')
       /\ ret'.op = "createNewState" =>
              /\ active' /\ turnCount' = 0 /\ stats' = <<>>
              /\ Emitted(notified', listeners.state, "new", turnCount')
       /\ ret'.op = "importState" /\ ret'.val # FALSE =>
              /\ ret'.val = TRUE
              /\ active'
              /\ [turnCount |-> turnCount', stats |-> stats']
                     = SimulationState_fromJSON(ret'.arg.value)
              /\ Emitted(notified', listeners.state, "import", turnCount')
       /\ \/ ret'.op \in {"tick", "reset", "processMessage"} /\ ~active
          \/ ret'.op = "importState" /\ ret'.val = FALSE
          => /\ notified' = <<>>
             /\ UNCHANGED <<active, turnCount, stats, listeners, changeHistory>>
       /\ ret'.op \in {"tick", "reset", "createNewState", "importState"} =>
              listeners'.state = listeners.state
      ]_vars

\* the second tick of a session with two state listeners: each was handed
\* one "tick" event and found the counter at 2
C28_Witness ==
    /\ ret.op = "tick"
    /\ ret.val.success
    /\ turnCount = 2
    /\ Len(listeners.state) = 2
    /\ Len(notified) = 2
    /\ \A k \in 1..2 : notified[k].event = "tick" /\ notified[k].seen = 2

-----------------------------------------------------------------------------
(* SpecListen: listeners, some of which throw, and the operations that     *)
(* notify them; identifiers that name a stat and identifiers that do not   *)

Quiet == Listener("quiet", FALSE)
Faulty == Listener("faulty", TRUE)

ListenConfigs == {Config("hp", None, None, Some(0), Some(MaxNum))}

ListenMessages ==
    { <<CommandToken("hp", "MODIFY", 0 - 1)>>,
      <<CommandToken("hp", "MODIFY", 0 - 1), CommandToken("mp", "SET", 1),
        CommandToken("HP", "SET", MaxNum)>> }

NextListen ==
    \/ CreateNewState
    \/ \E c \in ListenConfigs : AddStat(c)
    \/ \E l \in {None, Quiet, Faulty} : OnChange(l)
    \/ \E l \in {Quiet, Faulty} : OnStatChange(l)
    \/ \E l \in {Quiet, Faulty} : OnStateChange(l)
    \/ \E id \in {"hp", "HP", "mp"} : RegistryModify(id, Some(0 - 1))
    \/ \E id \in {"hp", "mp"} : RegistrySet(id, Some(1))
    \/ \E id \in {"hp", "mp"} : RegistryAddModifier(id, StatModifier("m1", "add", 1, None))
    \/ \E id \in {"hp", "mp"} : RegistryRemoveModifier(id, "m1")
    \/ \E m \in ListenMessages : ProcessMessage(m)
    \/ Reset

SpecListen == InitSession /\ [][NextListen]_vars

-----------------------------------------------------------------------------
(* Properties of processMessage (checked under SpecMsg) *)

SetMax(S) == CHOOSE x \in S : \A y \in S : y <= x

\* the entries of ch, before position k, that succeeded on the stat named id
HitsBefore(ch, k, id) ==
    {j \in 1..(k - 1) : ch[j].success /\ sanitizeId(ch[j].statId) = id}

\* one entry per well-formed command, in textual order; success exactly for
\* the stats of the registry; every successful command applied; nothing else
\* changed
MessageOutcome(pre, post, r, message) ==
    LET cmds == SelectSeq(message, LAMBDA tok : tok.kind = "command")
        ch == r.changes
    IN  /\ "commandCount" \in DOMAIN r
        /\ r.commandCount = Len(ch)
        /\ Len(ch) = Len(cmds)
        /\ \A k \in 1..Len(ch) :
             /\ ch[k].statId = cmds[k].statId
             /\ ch[k].success <=> (\E i \in 1..Len(pre) : pre[i].id = sanitizeId(cmds[k].statId))
             /\ ch[k].success =>
                  LET s == pre[StatManager_indexOf(pre, cmds[k].statId)]
                  IN  /\ ch[k].commandType = cmds[k].type
                      /\ ch[k].newValue =
                           IF cmds[k].type = "SET"
                           THEN NearestBound(cmds[k].value, s)
                           ELSE NearestBound(ch[k].oldValue + cmds[k].value, s)
        /\ Len(post) = Len(pre)
        /\ \A i \in 1..Len(pre) :
             LET hits == HitsBefore(ch, Len(ch) + 1, pre[i].id)
             IN  IF hits = {} THEN post[i] = pre[i]
                 ELSE post[i] = [pre[i] EXCEPT !.currentValue = ch[SetMax(hits)].newValue]

\* C3 as stated: for any message and any registry, one outcome entry per valid
\* command in textual order, commandCount the number of entries, success iff
\* the stat exists, a missing stat not stopping later commands, no other stat
\* changed.
C3_OutcomePerCommand ==
    [][(ret'.op = "processMessage" /\ active)
          => MessageOutcome(stats, stats', ret'.val, ret'.arg)]_vars

\* C3 as amended: the same while the engine is enabled; while it is disabled
\* processMessage returns no entries and changes no stat.
C3_OutcomePerCommandWhenEnabled ==
    [][(ret'.op = "processMessage" /\ active) =>
          IF enabled
          THEN MessageOutcome(stats, stats', ret'.val, ret'.arg)
          ELSE ret'.val.changes = <<>> /\ ret'.val.success /\ stats' = stats]_vars

\* a failure entry for a missing stat followed by a command that was applied
C3_Witness ==
    /\ ret.op = "processMessage"
    /\ enabled
    /\ Len(ret.val.changes) = 2
    /\ ~ret.val.changes[1].success
    /\ ret.val.changes[2].success
    /\ ret.val.changes[2].newValue # ret.val.changes[2].oldValue
    /\ Len(stats) = 1

\* C4: the oldValue of each successful command is the newValue of the previous
\* successful command on the same stat in the message, or the stat's
\* currentValue before the call when there is none.
C4_TextualOrder ==
    [][ret'.op = "processMessage" =>
          LET ch == ret'.val.changes
          IN  \A k \in 1..Len(ch) :
                ch[k].success =>
                  LET id == sanitizeId(ch[k].statId)
                      prev == HitsBefore(ch, k, id)
                  IN  ch[k].oldValue =
                        IF prev = {}
                        THEN stats[StatManager_indexOf(stats, id)].currentValue
                        ELSE ch[SetMax(prev)].newValue]_vars

\* two commands on one stat, the second seeing what the first did
C4_Witness ==
    /\ ret.op = "processMessage"
    /\ Len(ret.val.changes) = 2
    /\ ret.val.changes[1].success
    /\ ret.val.changes[2].success
    /\ sanitizeId(ret.val.changes[1].statId) = sanitizeId(ret.val.changes[2].statId)
    /\ ret.val.changes[1].newValue # ret.val.changes[1].oldValue
    /\ ret.val.changes[2].oldValue = ret.val.changes[1].newValue
    /\ ret.val.changes[2].newValue # ret.val.changes[2].oldValue

-----------------------------------------------------------------------------
(* Properties of the session's turns (checked under Spec) *)

AllModifiers == UNION {Range(stats[i].modifiers) : i \in 1..Len(stats)}

AgedOnce(before, after) ==
    /\ \A k \in 1..Len(before) :
         IF before[k].duration = None
         THEN before[k] \in Range(after)
         ELSE IF before[k].duration[1] > 1
         THEN \E m \in Range(after) :
                 /\ m.id = before[k].id
                 /\ m.duration = Some(before[k].duration[1] - 1)
                 /\ m.type = before[k].type
                 /\ m.value = before[k].value
         ELSE \A m \in Range(after) : m.id # before[k].id
    /\ \A m \in Range(after) : \E k \in 1..Len(before) : before[k].id = m.id
    /\ Len(after) <= Len(before)

\* C6: a new Simulation State starts at turn 0; a tick with an active state
\* adds exactly 1 to the turn counter, ages every stat's modifier stack once,
\* returns the new turn number and leaves every currentValue as it was.
C6_TickAdvancesTurn ==
    [][/\ ret'.op \in {"createNewState"} => (active' /\ turnCount' = 0)
       /\ (ret'.op = "tick" /\ active) =>
            /\ turnCount' = turnCount + 1
            /\ ret'.val.success
            /\ ret'.val.turn = turnCount'
            /\ Len(stats') = Len(stats)
            /\ \A i \in 1..Len(stats) :
                 /\ stats'[i].id = stats[i].id
                 /\ stats'[i].currentValue = stats[i].currentValue
                 /\ AgedOnce(stats[i].modifiers, stats'[i].modifiers)]_vars

\* a second tick over two stats, one of them with a modifier that has aged
C6_Witness ==
    /\ ret.op = "tick"
    /\ ret.val.success
    /\ turnCount >= 2
    /\ ret.val.turn = turnCount
    /\ Len(stats) = 2
    /\ \E m \in AllModifiers : m.age >= 1
    /\ \E i \in 1..Len(stats) : stats[i].currentValue # stats[i].maxValue

\* the identifiers of the modifiers of a stack that expire on the next tick
Dying(mods) ==
    {mods[k].id : k \in {j \in 1..Len(mods) : mods[j].duration = Some(1)}}

\* C7: a tick takes one turn off every finite duration; a modifier added with
\* duration n >= 1 is removed on the n-th tick after it and its id reported
\* once, in that tick's entry for its stat; no duration is ever negative; a
\* permanent modifier is never removed or reported; the result has an entry
\* for a stat only when a modifier of that stat expired on that tick.
C7_ExpiryReportedOnce ==
    /\ [](\A m \in AllModifiers :
            IF m.duration = None THEN m.dur0 = None
            ELSE m.duration[1] >= 1 /\ m.duration[1] + m.age = m.dur0[1])
    /\ [][(ret'.op = "tick" /\ active) =>
            LET exp == ret'.val.expiredModifiers
            IN  /\ DOMAIN exp \subseteq {stats[i].id : i \in 1..Len(stats)}
                /\ \A i \in 1..Len(stats) :
                     LET dying == Dying(stats[i].modifiers)
                     IN  /\ stats[i].id \in DOMAIN exp <=> dying # {}
                         /\ dying # {} =>
                              /\ Range(exp[stats[i].id]) = dying
                              /\ Len(exp[stats[i].id]) = Cardinality(dying)
                         /\ \A k \in 1..Len(stats[i].modifiers) :
                              LET b == stats[i].modifiers[k]
                              IN  IF b.id \in dying
                                  THEN /\ b.age + 1 = b.dur0[1]
                                       /\ \A m \in Range(stats'[i].modifiers) : m.id # b.id
                                  ELSE \E m \in Range(stats'[i].modifiers) :
                                         /\ m.id = b.id
                                         /\ m.dur0 = b.dur0
                                         /\ b.duration # None =>
                                              m.duration = Some(b.duration[1] - 1)]_vars

\* a tick on which a modifier added with duration 2 expired on one stat while
\* the other stat, holding a permanent modifier, has no entry
C7_Witness ==
    /\ ret.op = "tick"
    /\ ret.val.success
    /\ Len(stats) = 2
    /\ turnCount >= 2
    /\ Cardinality(DOMAIN ret.val.expiredModifiers) = 1
    /\ \E i \in 1..Len(stats) :
         /\ stats[i].id \notin DOMAIN ret.val.expiredModifiers
         /\ \E m \in Range(stats[i].modifiers) : m.duration = None
    /\ \E i \in 1..Len(stats) :
         /\ stats[i].id \in DOMAIN ret.val.expiredModifiers
         /\ Len(ret.val.expiredModifiers[stats[i].id]) = 2

-----------------------------------------------------------------------------
(* Properties of notification and of lookup misses (checked under SpecListen) *)

\* calls is rounds rounds over the listeners ls, each round calling every
\* listener once, in registration order
InRounds(calls, ls, rounds) ==
    /\ Len(calls) = rounds * Len(ls)
    /\ \A k \in 1..Len(calls) :
           calls[k].listener = ls[((k - 1) % Len(ls)) + 1].name

\* the entries of a result of processMessage that were applied
Applied(result) == SelectSeq(result.changes, LAMBDA c : c.success)

\* C15: whatever listeners are registered, throwing or not, an operation that
\* notifies returns normally to its caller, with its mutation applied, and has
\* called every listener of its registry: registry modify/set once each,
\* processMessage once per applied command (every command of the message
\* having got its outcome), reset and createNewState once each.
C15_ThrowingListenerIsolated ==
    [][/\ ret'.op \in {"registryModify", "registrySet", "processMessage", "reset",
                      "createNewState"} => ret'.val # Thrown
       /\ ret'.op \in {"registryModify", "registrySet"} /\ ret'.val # None =>
              /\ InRounds(notified', listeners.change, 1)
              /\ \E i \in 1..Len(stats) :
                     /\ stats[i].id = sanitizeId(ret'.arg)
                     /\ stats'[i].currentValue = ret'.val.newValue
                     /\ \A c \in Range(notified') : c.seen = ret'.val.newValue
       /\ ret'.op = "processMessage" /\ active /\ enabled =>
              /\ MessageOutcome(stats, stats', ret'.val, ret'.arg)
              /\ InRounds(notified', listeners.stat, Len(Applied(ret'.val)))
       /\ ret'.op = "reset" /\ active =>
              /\ InRounds(notified', listeners.state, 1)
              /\ turnCount' = 0
              /\ \A i \in 1..Len(stats) :
                     stats'[i].currentValue = NearestBound(stats[i].baseValue, stats[i])
       /\ ret'.op = "createNewState" =>
              /\ InRounds(notified', listeners.state, 1)
              /\ active' /\ stats' = <<>>
      ]_vars

\* a message with two applied commands, processed with a throwing listener
\* registered ahead of one that does not throw: both were called for both
C15_Witness ==
    /\ ret.op = "processMessage"
    /\ listeners.stat = <<Faulty, Quiet>>
    /\ Len(Applied(ret.val)) = 2
    /\ Len(ret.val.changes) = 3
    /\ Len(notified) = 4
    /\ notified[2].listener = "quiet" /\ notified[4].listener = "quiet"
    /\ notified[2].seen # notified[4].seen
    /\ stats[1].currentValue = MaxNum

\* the identifier names no stat of the registry
Miss(reg, statId) == \A i \in 1..Len(reg) : reg[i].id # sanitizeId(statId)

\* C19: modify, set and addModifier of the registry on an identifier that
\* names no stat return null, removeModifier returns false, and in each case
\* no stat changes and no listener is called.
C19_LookupMissChangesNothing ==
    [][(/\ ret'.op \in {"registryModify", "registrySet", "registryAddModifier",
                        "registryRemoveModifier"}
        /\ Miss(stats, ret'.arg))
       => /\ IF ret'.op = "registryRemoveModifier"
             THEN ret'.val = FALSE
             ELSE ret'.val = None
          /\ stats' = stats
          /\ notified' = <<>>
          /\ UNCHANGED <<active, turnCount, listeners, changeHistory>>
      ]_vars

\* modify on an identifier that names no stat, in a registry that has a
\* stat and a listener
C19_Witness ==
    /\ ret.op = "registryModify"
    /\ Miss(stats, ret.arg)
    /\ ret.val = None
    /\ stats # <<>>
    /\ listeners.change # <<>>
    /\ notified = <<>>


-----------------------------------------------------------------------------
(* SpecView: the summary handed to the AI, over stats of every visibility *)

\* the display fields of a configuration: none, or a flag and a mode, one
\* of the modes being no StatDisplayMode
ViewDisplays ==
    {<<>>} \cup {[showInUI |-> b, displayMode |-> d] :
                   b \in BOOLEAN, d \in {"value", "percent", "hidden", "fancy"}}

ViewConfigs ==
    {Config(id, None, None, Some(0), Some(1)) @@ d :
       id \in StatIds, d \in ViewDisplays}

\* the settings the host saved: none, or a flag and a token mode, one of the
\* modes being no TokenMode
ViewSettings ==
    {<<>>} \cup {[enabled |-> e, tokenMode |-> m] :
                   e \in BOOLEAN, m \in {"zero", "minimal", "full", "verbose"}}

InitView ==
    /\ active = FALSE
    /\ enabled = TRUE
    /\ turnCount = 0
    /\ stats = <<>>
    /\ ret = Ret("constructor", None, None)
    /\ tokenMode = DefaultTokenMode
    /\ listeners = NoListeners
    /\ notified = <<>>
    /\ changeHistory = [id \in StatIds |-> <<>>]

NextView ==
    \/ \E saved \in ViewSettings : InitializeWith(saved)
    \/ \E c \in ViewConfigs : AddStat(c)
    \/ \E d \in {Some(0 - 1), Some(1)} : RegistryModify("hp", d)
    \/ Reset
    \/ ImportExported
    \/ GetAIContext

SpecView == InitView /\ [][NextView]_vars

\* the stat of the registry an entry of the summary was rendered from
Shown(reg, entry) == {k \in 1..Len(reg) : reg[k].id = entry.stat}

\* C17: the summary getAIContext returns has an entry only for stats of the
\* registry whose showInUI flag is set and whose displayMode is not hidden,
\* in every token mode; and it is the empty string in the zero mode, when
\* the engine is disabled and when there is no active state.
C17_SummaryExcludesHidden ==
    ret.op = "getAIContext" =>
        /\ (~active \/ ~enabled \/ tokenMode = TokenMode.ZERO) =>
               ret.val = EmptyString
        /\ ret.val # EmptyString =>
               \A i \in 1..Len(ret.val.entries) :
                   /\ Shown(stats, ret.val.entries[i]) # {}
                   /\ \A k \in Shown(stats, ret.val.entries[i]) :
                          stats[k].showInUI /\ stats[k].displayMode # "hidden"

\* a summary in the full mode that shows one stat, of a registry whose
\* other stat is hidden by its flag or by its mode
C17_Witness ==
    /\ ret.op = "getAIContext"
    /\ tokenMode = TokenMode.FULL
    /\ ret.val # EmptyString
    /\ Len(ret.val.entries) = 1
    /\ ret.val.entries[1].change # 0
    /\ \E k \in 1..Len(stats) : stats[k].displayMode = "hidden"



-----------------------------------------------------------------------------
(* SpecParse: messages processed as texts *)

\* "{{hp:-5}}" and "{{mp:=20}}"
ModifyHp == <<OpenTag, "hp", Separator, "-5", CloseTag>>
SetMp == <<OpenTag, "mp", Separator, SetMarker, "20", CloseTag>>
WellFormedSegments == {ModifyHp, SetMp}

\* " text ", "{{hp:abc}}", "{{:-5}}", "{{hp:-5" and "}}"
Narrative == <<" text ">>
BadNumber == <<OpenTag, "hp", Separator, "abc", CloseTag>>
NoIdentifier == <<OpenTag, Separator, "-5", CloseTag>>
OpenOnly == <<OpenTag, "hp", Separator, "-5">>
CloseOnly == <<CloseTag>>
OtherSegments == {Narrative, BadNumber, NoIdentifier, OpenOnly, CloseOnly}

RECURSIVE Concat(_)
Concat(segments) ==
    IF segments = <<>> THEN <<>> ELSE segments[1] \o Concat(Tail(segments))

\* the texts of up to MaxMsgLen segments, and those of one segment of any
\* kind between two well-formed ones
Texts ==
    {Concat(ss) : ss \in SeqsUpTo(WellFormedSegments \cup OtherSegments, MaxMsgLen)}
    \cup {v \o m \o w : v \in WellFormedSegments,
                        m \in WellFormedSegments \cup OtherSegments,
                        w \in WellFormedSegments}

NextParse ==
    \/ CreateNewState
    \/ \E c \in MsgConfigs : AddStat(c)
    \/ \E text \in Texts : ProcessText(text)

SpecParse == InitSession /\ [][NextParse]_vars

\* the command a token of the grammar OPEN identifier SEP valueExpr CLOSE
\* stands for, given what its delimiters enclose; no command otherwise
Denoted(content) ==
    {[statId |-> content[1], type |-> "MODIFY", value |-> NumericLiterals[w]] :
        w \in {w \in DOMAIN NumericLiterals :
                 isIdentifier(content[1]) /\ content = <<content[1], Separator, w>>}}
    \cup
    {[statId |-> content[1], type |-> "SET", value |-> NumericLiterals[w]] :
        w \in {w \in DOMAIN NumericLiterals :
                 /\ isIdentifier(content[1])
                 /\ content = <<content[1], Separator, SetMarker, w>>}}

\* the position of the close delimiter that ends the open delimiter at i
\* with no delimiter in between
Closing(text, i) ==
    {j \in (i + 1)..Len(text) :
        /\ text[i] = OpenTag
        /\ text[j] = CloseTag
        /\ \A k \in (i + 1)..(j - 1) : text[k] \notin {OpenTag, CloseTag}}

\* the commands of the well-formed tokens that open at position i or after
RECURSIVE WellFormedFrom(_, _)
WellFormedFrom(text, i) ==
    IF i > Len(text) THEN <<>>
    ELSE LET here == UNION {Denoted(SubSeq(text, i + 1, j - 1)) :
                              j \in {j \in Closing(text, i) : j > i + 1}}
         IN  (IF here = {} THEN <<>> ELSE <<CHOOSE c \in here : TRUE>>)
             \o WellFormedFrom(text, i + 1)

\* C16: parseValid returns exactly the commands of the well-formed tokens of
\* the text, in textual order, a signed literal giving MODIFY and an
\* "="-prefixed literal SET; "{{hp:-5}} text {{mp:=20}}" gives MODIFY hp -5
\* then SET mp 20 and "{{hp:-5" gives nothing; malformed tokens around the
\* well-formed ones remove and reorder none of them; and processMessage
\* reports one outcome per such command, in that order.
C16_ParseValidInOrder ==
    ret.op = "processText" =>
        LET text == ret.arg
            commands == parseValid(StatParser_parse(text))
            expected == WellFormedFrom(text, 1)
        IN  /\ commands = expected
            /\ text = ModifyHp \o Narrative \o SetMp =>
                   commands = <<[statId |-> "hp", type |-> "MODIFY", value |-> 0 - 5],
                                [statId |-> "mp", type |-> "SET", value |-> 20]>>
            /\ text = OpenOnly => commands = <<>>
            /\ active /\ enabled =>
                   /\ ret.val.commandCount = Len(expected)
                   /\ Len(ret.val.changes) = Len(expected)
                   /\ \A k \in 1..Len(expected) :
                          /\ ret.val.changes[k].statId = expected[k].statId
                          /\ ret.val.changes[k].success =>
                                 /\ ret.val.changes[k].commandType = expected[k].type
                                 /\ expected[k].type = "MODIFY" =>
                                        ret.val.changes[k].requestedChange
                                            = expected[k].value

\* "{{hp:-5}}{{hp:-5{{mp:=20}}" processed: an unmatched open delimiter
\* between two well-formed tokens, both applied
C16_Witness ==
    /\ ret.op = "processText"
    /\ ret.arg = ModifyHp \o OpenOnly \o SetMp
    /\ active /\ enabled
    /\ ret.val.commandCount = 2
    /\ ret.val.changes[1].success /\ ret.val.changes[1].commandType = "MODIFY"
    /\ ret.val.changes[2].success /\ ret.val.changes[2].commandType = "SET"



-----------------------------------------------------------------------------
(* SpecListen: the notifications of processMessage *)

\* the calls processMessage has to make from its k-th command on: after a
\* command that names a stat of reg, one call of every stat listener in
\* registration order, each finding on that stat the value the commands up
\* to and including this one left; nothing after a command that names none
RECURSIVE RoundsFrom(_, _, _, _)
RoundsFrom(reg, ls, commands, k) ==
    IF k > Len(commands) THEN <<>>
    ELSE LET id == sanitizeId(commands[k].statId)
             sofar == ApplyCommands(reg, SubSeq(commands, 1, k)).stats
             i == StatManager_indexOf(sofar, id)
         IN  (IF i = 0 THEN <<>>
              ELSE [n \in 1..Len(ls) |->
                      Call("stat", ls[n], id, sofar[i].currentValue)])
             \o RoundsFrom(reg, ls, commands, k + 1)

\* C22: processMessage calls, for every command it applies, each registered
\* stat-change listener exactly once, in registration order, with the stat
\* as that command left it and before the next command is applied; for a
\* command whose stat is not found it calls none.
C22_NotifiedPerCommand ==
    [][ret'.op = "processMessage" /\ active /\ enabled =>
          /\ notified' = RoundsFrom(stats, listeners.stat, parseValid(ret'.arg), 1)
          /\ \A k \in 1..Len(ret'.val.changes) :
                 ~ret'.val.changes[k].success =>
                     ret'.val.changes[k].error = "Stat not found"
      ]_vars

\* a message of three commands, the second naming no stat, processed with
\* two listeners registered: two rounds of two calls, the listeners of the
\* first round having found another value than those of the second
C22_Witness ==
    /\ ret.op = "processMessage"
    /\ listeners.stat = <<Quiet, Faulty>>
    /\ Len(ret.val.changes) = 3
    /\ ~ret.val.changes[2].success
    /\ Len(notified) = 4
    /\ notified[1].listener = "quiet" /\ notified[2].listener = "faulty"
    /\ notified[3].listener = "quiet" /\ notified[4].listener = "faulty"
    /\ notified[1].seen = notified[2].seen
    /\ notified[2].seen # notified[3].seen



-----------------------------------------------------------------------------
(* SpecOrder: one stat with the default bounds, and stacks of up to three  *)
(* modifiers added in every order                                          *)

OrderModIds == {"m1", "m2", "m3"}

OrderModifiers ==
    {StatModifier(id, type, value, None) :
        id \in OrderModIds, type \in ModifierTypes, value \in ModValues}

InitOrder ==
    /\ active = TRUE
    /\ enabled = TRUE
    /\ turnCount = 0
    /\ \E cur \in Nums :
           stats = <<Stat_constructor(Config("hp", None, Some(cur), None, None))>>
    /\ ret = Ret("new", None, None)
    /\ tokenMode = DefaultTokenMode
    /\ listeners = NoListeners
    /\ notified = <<>>
    /\ changeHistory = <<>>

NextOrder ==
    \/ \E m \in OrderModifiers : AddModifier(1, m)
    \/ \E id \in OrderModIds : RemoveModifier(1, id)
    \/ ClearModifiers(1)
    \/ \E v \in Nums : Set(1, Some(v))

SpecOrder == InitOrder /\ [][NextOrder]_vars

\* the orders the modifiers of a stack can be in
Orders(mods) ==
    {[i \in 1..Len(mods) |-> mods[p[i]]] :
        p \in {p \in [1..Len(mods) -> 1..Len(mods)] :
                 \A i, j \in 1..Len(mods) : p[i] = p[j] => i = j}}

\* the stat s after its stack was emptied and mods were added one by one
RECURSIVE Inserted(_, _)
Inserted(s, mods) ==
    IF mods = <<>> THEN Stat_clearModifiers(s)
    ELSE Stat_addModifier(Inserted(s, SubSeq(mods, 1, Len(mods) - 1)),
                          mods[Len(mods)])

\* no two override modifiers of the stack have different values
OneOverrideValue(mods) ==
    \A i, j \in 1..Len(mods) :
        mods[i].type = "override" /\ mods[j].type = "override" =>
            mods[i].value = mods[j].value

\* C24 as stated: the modifiers of the stack, added in any other order,
\* give the same finalValue.
C24_OrderIndependent ==
    \A q \in Orders(stats[1].modifiers) :
        Stat_finalValue(Inserted(stats[1], q)) = Stat_finalValue(stats[1])

\* C24: the modifiers of a stack that holds no two override modifiers of
\* different values, added in any other order, give the same finalValue;
\* and adding them in the order of the stack gives the stack.
C24_OrderIndependentOneOverride ==
    /\ Inserted(stats[1], stats[1].modifiers) = stats[1]
    /\ OneOverrideValue(stats[1].modifiers) =>
           \A q \in Orders(stats[1].modifiers) :
               Stat_finalValue(Inserted(stats[1], q)) = Stat_finalValue(stats[1])

\* a stack of a multiplicative, an additive and a percentage modifier, in
\* that order, whose finalValue is strictly between the bounds
C24_Witness ==
    /\ Len(stats[1].modifiers) = 3
    /\ stats[1].modifiers[1].type = "multiply" /\ stats[1].modifiers[1].value = 3
    /\ stats[1].modifiers[2].type = "add"
    /\ stats[1].modifiers[3].type = "percent"
    /\ stats[1].currentValue > 0
    /\ Stat_finalValue(stats[1]) > stats[1].minValue
    /\ Stat_finalValue(stats[1]) < stats[1].maxValue



-----------------------------------------------------------------------------
(* SpecFrame: one stat with its history, written and modified in turn *)

FrameModifiers ==
    {StatModifier("m1", type, 1, None) : type \in ModifierTypes}
    \cup {StatModifier("m2", "add", 1, Some(d)) : d \in 1..MaxDur}

InitFrame ==
    /\ active = TRUE
    /\ enabled = TRUE
    /\ turnCount = 0
    /\ stats = <<Stat_constructor(Config("hp", Some(1), None, Some(0), Some(MaxNum)))>>
    /\ ret = Ret("new", None, None)
    /\ tokenMode = DefaultTokenMode
    /\ listeners = NoListeners
    /\ notified = <<>>
    /\ changeHistory = [id \in {"hp"} |-> <<>>]

NextFrame ==
    \/ \E v \in {0, MaxNum} : Set(1, Some(v))
    \/ \E m \in FrameModifiers : AddModifier(1, m)
    \/ \E id \in ModIds : RemoveModifier(1, id)
    \/ ClearModifiers(1)
    \/ TickStat(1)
    \/ GetFinalValue(1)

SpecFrame == InitFrame /\ [][NextFrame]_vars

\* what is stored of a stat: its values, its bounds and its history
Stored(s, h) == <<s.currentValue, s.baseValue, s.minValue, s.maxValue, h[s.id]>>

-----------------------------------------------------------------------------
(* SpecUnsub: registrations the host makes and cancels, between            *)
(* notifications; the state of the session is not replaced                 *)

Other == Listener("other", FALSE)

InitUnsub ==
    /\ active = TRUE
    /\ enabled = TRUE
    /\ turnCount = 0
    /\ stats = <<Stat_constructor(Config("hp", None, None, Some(0), Some(1)))>>
    /\ ret = Ret("createNewState", None, None)
    /\ tokenMode = DefaultTokenMode
    /\ listeners = NoListeners @@ [handles |-> <<>>]
    /\ notified = <<>>
    /\ changeHistory = <<>>

NextUnsub ==
    \/ \E channel \in {"change", "stat", "state"}, l \in {Quiet, Other} :
           Subscribe(channel, l)
    \/ \E n \in 1..Len(listeners.handles) : Unsubscribe(n)
    \/ \E v \in {0, 1} : RegistrySet("hp", Some(v))
    \/ ProcessMessage(<<CommandToken("hp", "SET", 1)>>)
    \/ Reset

SpecUnsub == InitUnsub /\ [][NextUnsub]_vars

\* C23: the function returned by a registration removes exactly that
\* registration: what is left of the array is the array without the element
\* registered with it, the other arrays are as they were, and calling it
\* once its registration is gone changes nothing.
C23_UnsubscribeRemovesOwn ==
    [][ret'.op = "unsubscribe" =>
          LET h == listeners.handles[ret'.arg]
          IN  /\ listeners'[h.channel] =
                     IF h.position = 0 THEN listeners[h.channel]
                     ELSE Without(listeners[h.channel], h.position)
              /\ \A c \in {"change", "stat", "state"} \ {h.channel} :
                     listeners'[c] = listeners[c]
      ]_vars



-----------------------------------------------------------------------------
(* SpecReenter: listeners that subscribe and unsubscribe from inside their *)
(* callback                                                                *)

Late == Listener("late", FALSE)
SelfRemover == Unsubscriber("self", "self")
Remover == Unsubscriber("remover", "quiet")
Adder == Subscriber("adder", Late)

ReentrantListeners == {Quiet, Other, SelfRemover, Remover, Adder}

InitReenter ==
    /\ active = TRUE
    /\ enabled = TRUE
    /\ turnCount = 0
    /\ stats = <<Stat_constructor(Config("hp", None, None, Some(0), Some(1)))>>
    /\ ret = Ret("createNewState", None, None)
    /\ tokenMode = DefaultTokenMode
    /\ listeners = NoListeners
    /\ notified = <<>>
    /\ changeHistory = <<>>

NextReenter ==
    \/ \E l \in ReentrantListeners : OnChange(l)
    \/ \E l \in ReentrantListeners : OnStatChange(l)
    \/ \E v \in {0, 1} : RegistrySetLive("hp", Some(v))
    \/ \E v \in {0, 1} : ProcessMessageLive(<<CommandToken("hp", "SET", v)>>)

SpecReenter == InitReenter /\ [][NextReenter]_vars

\* how many elements of the array are the function named name
Registrations(arr, name) == Cardinality({i \in 1..Len(arr) : arr[i].name = name})

\* during one notification over the array before, which left the array
\* after: every function registered once when it began and registered once
\* when it ended was called exactly once. (In SpecReenter a listener that
\* is unsubscribed is not registered again during the notification, so
\* these functions were registered throughout.)
OncePerListener(before, after, calls) ==
    \A i \in 1..Len(before) :
        /\ Registrations(before, before[i].name) = 1
        /\ Registrations(after, before[i].name) = 1
        => Cardinality({k \in 1..Len(calls) : calls[k].listener = before[i].name}) = 1

\* C27: during one notification every listener that was registered when it
\* began, and was not unsubscribed before its turn, is called exactly once,
\* also when listeners unsubscribe or subscribe from inside their callback.
C27_NotifiedOnceUnderReentry ==
    [][/\ ret'.op = "registrySet" /\ ret'.val # None =>
              OncePerListener(listeners.change, listeners'.change, notified')
       /\ ret'.op = "processMessage" =>
              OncePerListener(listeners.stat, listeners'.stat, notified')
      ]_vars


====
